---- MODULE Spec2Model ----
(***************************************************************************)
(* A model of pyrail's iRail client (src/pyrail/irail.py): the parameter   *)
(* validator, the token-bucket rate limiter behind an asyncio.Lock, and    *)
(* the request orchestrator _do_request with its response handling.        *)
(*                                                                         *)
(* Strings are sequences of character codes: 0..9 are the digits '0'..'9', *)
(* OtherChar is any character that is not a digit, Bar is '|', EqualsSign  *)
(* is '=', and Word(name) is one code that stands for the characters of a  *)
(* name (a method, a language, a parameter name), none of which is '|' or  *)
(* '='.  A parameter value is the record None or Str(s).  A dict is a      *)
(* function from names to values; where the order of its items matters it  *)
(* is the sequence of its items [k, v] in insertion order.                 *)
(*                                                                         *)
(* Time is counted in ticks, TicksPerSec ticks to the second.  A time      *)
(* stamp is kept as its age, time.time() minus the stamp: the Tick action  *)
(* lets one tick pass and ages every stamp, and an age stops growing at    *)
(* the value beyond which the code no longer tells ages apart.             *)
(*                                                                         *)
(* asyncio runs one coroutine at a time and switches only at an await that *)
(* suspends, so an action is the code a call runs between two suspensions. *)
(* Cancelling a call takes two steps: Task.cancel() marks the suspended     *)
(* task (pc "x_" and the place), and the task, when it runs next, is left   *)
(* by CancelledError.                                                       *)
(*                                                                         *)
(* The variable env never changes: it holds what the callers and the       *)
(* server of a run may do (who calls, with which requests, which answers   *)
(* come back, where a call may be cancelled) and whether the run keeps     *)
(* history (the count of a call's GETs beyond the first, the keys asked    *)
(* for, the answer handled and the method called in the last step) and    *)
(* whether it meters the rate limiter (the GETs let through tick by tick). *)
(* Each specification fixes env in its initial state and names the actions *)
(* of its runs.                                                            *)
(***************************************************************************)
EXTENDS Integers, Sequences, FiniteSets, TLC

VARIABLES
    lang,               \* self.lang
    session,            \* self.session: "none", "open" or "closed"
    owns_session,       \* self._owns_session
    tokens,             \* self.tokens
    burst_tokens,       \* self.burst_tokens
    last_request_age,   \* time.time() - self.last_request_time, in ticks
    locked,             \* self.lock: locked
    waiters,            \* self.lock: the callers queued in acquire(), oldest first
    woken,              \* self.lock: the queued callers whose future is done
    holder,             \* the caller that holds self.lock, or NoCaller
    response_cache,     \* self.response_cache: cache key -> [etag, data, age in seconds]
    cache_max_age,      \* self.cache_max_age, in seconds
    pc,                 \* where each caller's call is suspended
    req,                \* the method and args of each caller's call
    ckey,               \* the cache_key of each caller's GET in flight
    sleep,              \* the ticks left of each caller's asyncio.sleep
    result,             \* what each caller's call returned
    hdr,                \* the If-None-Match header of each caller's GET in flight
    gets,               \* the GETs issued for each caller's call
    rapid,              \* acquisitions completed while no time has passed
    fresh,              \* no time has passed since construction
    asked,              \* the cache keys a GET was sent for
    meter,              \* the GETs let through in each of the last ticks, and the
                        \* ticks for which self.tokens has not changed
    answer,             \* the answer handled in the last step, if that step handled one
    op,                 \* the call made in the last step on the client's other
                        \* methods, if that step made one
    env,                \* what the callers and the server of this run may do (never changes)
    v_method,           \* validator harness: the method passed to _validate_params
    v_params,           \* validator harness: the params passed to _validate_params
    v_result,           \* validator harness: "pending", or the outcome of _validate_params
    k_a,                \* cache key harness: a request [lang, method, items]
    k_b,                \* cache key harness: another request
    k_keys              \* cache key harness: <<>>, or the cache keys of k_a and k_b

rlvars == <<tokens, burst_tokens, last_request_age>>

lockvars == <<locked, waiters, woken, holder>>

cachevars == <<response_cache, cache_max_age>>

callvars == <<pc, req, ckey, hdr, sleep, result, gets>>

ghostvars == <<rapid, fresh, asked, meter>>

envvars == <<env>>

kvars == <<k_a, k_b, k_keys>>

vvars == <<v_method, v_params, v_result, kvars>>

vars == <<lang, session, owns_session, rlvars, lockvars, cachevars, callvars, ghostvars,
          answer, op, envvars, vvars>>

----------------------------------------------------------------------------
(* Values and strings *)

OtherChar == 10

Bar == 11

EqualsSign == 12

None == [isNone |-> TRUE, s |-> <<>>]

Str(s) == [isNone |-> FALSE, s |-> s]

Range(seq) == {seq[i] : i \in 1..Len(seq)}

Min(a, b) == IF a <= b THEN a ELSE b

Max(a, b) == IF a >= b THEN a ELSE b

IsDigit(ch) == ch \in 0..9

\* Python truthiness of a parameter value: None and "" are falsy
Truthy(v) == ~v.isNone /\ Len(v.s) > 0

----------------------------------------------------------------------------
(* datetime.strptime, as _validate_date and _validate_time use it.         *)
(* strptime compiles the format to a regular expression, takes its first   *)
(* match at the start of the string (alternatives in the order written,    *)
(* backtracking only while the expression fails), rejects the string when  *)
(* the match does not end at the end of the string, and then builds the    *)
(* date.                                                                   *)

\* %d is (3[0-1]|[1-2]\d|0[1-9]|[1-9]| [1-9]): the lengths it can match at
\* position i, in the order the alternatives are tried
DayLens(s, i) ==
    (IF i + 1 <= Len(s) /\ IsDigit(s[i]) /\ IsDigit(s[i + 1])
        /\ \/ s[i] = 3 /\ s[i + 1] \in 0..1
           \/ s[i] \in 1..2
           \/ s[i] = 0 /\ s[i + 1] \in 1..9
     THEN <<2>> ELSE <<>>)
    \o (IF i <= Len(s) /\ s[i] \in 1..9 THEN <<1>> ELSE <<>>)

\* %m is (1[0-2]|0[1-9]|[1-9])
MonthLens(s, i) ==
    (IF i + 1 <= Len(s) /\ IsDigit(s[i]) /\ IsDigit(s[i + 1])
        /\ \/ s[i] = 1 /\ s[i + 1] \in 0..2
           \/ s[i] = 0 /\ s[i + 1] \in 1..9
     THEN <<2>> ELSE <<>>)
    \o (IF i <= Len(s) /\ s[i] \in 1..9 THEN <<1>> ELSE <<>>)

\* %y is (\d\d)
YearMatches(s, i) == i + 1 <= Len(s) /\ IsDigit(s[i]) /\ IsDigit(s[i + 1])

\* %H is (2[0-3]|[0-1]\d|\d)
HourLens(s, i) ==
    (IF i + 1 <= Len(s) /\ IsDigit(s[i]) /\ IsDigit(s[i + 1])
        /\ \/ s[i] = 2 /\ s[i + 1] \in 0..3
           \/ s[i] \in 0..1
     THEN <<2>> ELSE <<>>)
    \o (IF i <= Len(s) /\ IsDigit(s[i]) THEN <<1>> ELSE <<>>)

\* %M is ([0-5]\d|\d)
MinuteLens(s, i) ==
    (IF i + 1 <= Len(s) /\ IsDigit(s[i]) /\ IsDigit(s[i + 1]) /\ s[i] \in 0..5
     THEN <<2>> ELSE <<>>)
    \o (IF i <= Len(s) /\ IsDigit(s[i]) THEN <<1>> ELSE <<>>)

\* the number a run of digits s[i .. i+n-1] stands for, n in 1..2
Num(s, i, n) == IF n = 1 THEN s[i] ELSE 10 * s[i] + s[i + 1]

\* the first match of %d%m%y in s: [ok, d, m, y, end]
NoMatch == [ok |-> FALSE, d |-> 0, m |-> 0, y |-> 0, end |-> 0]

MatchDate(s) ==
    LET dl == DayLens(s, 1)
        \* the first month length after a day of length n that lets %y match
        ml(n) == LET c == MonthLens(s, 1 + n)
                     good == {j \in 1..Len(c) : YearMatches(s, 1 + n + c[j])}
                 IN  IF good = {} THEN 0
                     ELSE c[CHOOSE j \in good : \A k \in good : j <= k]
        gd == {j \in 1..Len(dl) : ml(dl[j]) # 0}
    IN  IF gd = {} THEN NoMatch
        ELSE LET n == dl[CHOOSE j \in gd : \A k \in gd : j <= k]
                 m == ml(n)
             IN  [ok |-> TRUE, d |-> Num(s, 1, n), m |-> Num(s, 1 + n, m),
                  y |-> Num(s, 1 + n + m, 2), end |-> n + m + 2]

\* %y: 00..68 are 2000..2068, 69..99 are 1969..1999
FullYear(y) == IF y <= 68 THEN 2000 + y ELSE 1900 + y

IsLeap(year) == year % 4 = 0 /\ (year % 100 # 0 \/ year % 400 = 0)

DaysInMonth(year, m) ==
    IF m = 2 THEN (IF IsLeap(year) THEN 29 ELSE 28)
    ELSE IF m \in {4, 6, 9, 11} THEN 30 ELSE 31

\* datetime.strptime(s, "%d%m%y") returns (TRUE) or raises ValueError (FALSE)
StrptimeDate(s) ==
    LET r == MatchDate(s)
    IN  /\ r.ok
        /\ r.end = Len(s)
        /\ r.d <= DaysInMonth(FullYear(r.y), r.m)

\* datetime.strptime(s, "%H%M") returns (TRUE) or raises ValueError (FALSE)
StrptimeTime(s) ==
    LET hl == HourLens(s, 1)
        ml(n) == MinuteLens(s, 1 + n)
        gd == {j \in 1..Len(hl) : Len(ml(hl[j])) > 0}
    IN  /\ gd # {}
        /\ LET n == hl[CHOOSE j \in gd : \A k \in gd : j <= k]
           IN  n + ml(n)[1] = Len(s)

validate_date(date) == IF ~Truthy(date) THEN TRUE ELSE StrptimeDate(date.s)

validate_time(time) == IF ~Truthy(time) THEN TRUE ELSE StrptimeTime(time.s)

----------------------------------------------------------------------------
(* The endpoint table and _validate_params *)

endpoints ==
    [stations     |-> [required |-> <<>>, xor |-> <<>>, optional |-> <<>>],
     liveboard    |-> [required |-> <<>>, xor |-> <<"station", "id">>,
                       optional |-> <<"date", "time", "arrdep", "alerts">>],
     connections  |-> [required |-> <<"from", "to">>, xor |-> <<>>,
                       optional |-> <<"date", "time", "timesel", "typeOfTransport">>],
     vehicle      |-> [required |-> <<"id">>, xor |-> <<>>,
                       optional |-> <<"date", "alerts">>],
     composition  |-> [required |-> <<"id">>, xor |-> <<>>, optional |-> <<"data">>],
     disturbances |-> [required |-> <<>>, xor |-> <<>>,
                       optional |-> <<"lineBreakCharacter">>]]

EndpointNames == DOMAIN endpoints

\* params.get(param) is not None
HasValue(params, k) == k \in DOMAIN params /\ ~params[k].isNone

\* sum(xor_values): how many members of the xor list have a value
XorCount(params, xor) == Cardinality({i \in 1..Len(xor) : HasValue(params, xor[i])})

MissingRequired_KeyOnly(params, required) ==
    \E i \in 1..Len(required) : required[i] \notin DOMAIN params

\* some required parameter is not in params or is None
MissingRequired(params, required) ==
    \E i \in 1..Len(required) :
        required[i] \notin DOMAIN params \/ params[required[i]].isNone

XorViolated_AtMostOne(params, xor) == Len(xor) > 0 /\ XorCount(params, xor) > 1

\* the xor list is not empty and the number of its members with a value is not 1
XorViolated(params, xor) == Len(xor) > 0 /\ XorCount(params, xor) # 1

Unexpected_ValuedOnly(params, all_params) ==
    \E k \in DOMAIN params : ~params[k].isNone /\ k \notin Range(all_params)

\* some key of params is not in all_params
Unexpected(params, all_params) ==
    \E k \in DOMAIN params : k \notin Range(all_params)

AllParams_NoXor(endpoint) == endpoint.required \o endpoint.optional

\* all_params = required + xor + optional
AllParams(endpoint) == endpoint.required \o endpoint.xor \o endpoint.optional

\* the check of _validate_params that rejects (method, params), or "ok"
validate_reason(method, params) ==
    IF method \notin EndpointNames THEN "unknown"
    ELSE LET endpoint == endpoints[method]
             required == endpoint.required
             xor == endpoint.xor
             all_params == AllParams(endpoint)
         IN  IF "date" \in DOMAIN params /\ ~validate_date(params["date"]) THEN "date"
             ELSE IF "time" \in DOMAIN params /\ ~validate_time(params["time"]) THEN "time"
             ELSE IF MissingRequired(params, required) THEN "required"
             ELSE IF XorViolated(params, xor) THEN "xor"
             ELSE IF Unexpected(params, all_params) THEN "unexpected"
             ELSE "ok"

validate_params(method, params) == validate_reason(method, params) = "ok"

----------------------------------------------------------------------------
(* The client: bounds, constants and the values of its state *)

\* the callers of Spec
NumCallers == 2

\* the callers of LockSpec, enough for two to queue behind the lock's holder
NumContenders == 3

Callers == 1..Max(NumCallers, NumContenders)

NoCaller == 0

TicksPerSec == 4

\* a call's count of GETs stops growing at MaxGets in a run that keeps history
MaxGets == 3

\* the count of acquisitions made before any time has passed stops at MaxRapid
MaxRapid == 9

\* the time the LongTick action lets pass, in seconds
LongTickSeconds == 3600

InitTokens == 3

InitBurst == 5

MaxTokens == 3

MaxBurst == 5

RefillRate == 3

DefaultMaxAge == 3600

DefaultRetryAfter == 1

Langs == {"nl", "fr", "en", "de"}

lang_setter_Unchecked(value) == value

\* the lang setter: a value outside nl, fr, en, de becomes en
lang_setter(value) == IF value \in Langs THEN value ELSE "en"

\* the lang arguments the client is constructed with
ConstructorLangs == {"en", "eo"}

NoArgs == [k \in {} |-> None]

\* a method that is no endpoint
UnknownMethod == "timetable"

\* the requests the callers make: two valid ones, and one for each way the
\* validator rejects
ValidRequests ==
    {[method |-> "stations", args |-> NoArgs],
     [method |-> "liveboard", args |-> [k \in {"station"} |-> Str(<<OtherChar>>)]]}

R_UnknownEndpoint == [method |-> UnknownMethod, args |-> NoArgs]

R_MissingRequired == [method |-> "vehicle", args |-> NoArgs]

R_XorViolation ==
    [method |-> "liveboard", args |-> [k \in {"station", "id"} |-> Str(<<OtherChar>>)]]

R_UnexpectedKey == [method |-> "stations", args |-> [k \in {"color"} |-> Str(<<OtherChar>>)]]

R_BadDate ==
    [method |-> "liveboard",
     args |-> [k \in {"station", "date"} |->
                  IF k = "date" THEN Str(<<3, 2, 0, 9, 2, 3>>) ELSE Str(<<OtherChar>>)]]

R_BadTime ==
    [method |-> "liveboard",
     args |-> [k \in {"station", "time"} |->
                  IF k = "time" THEN Str(<<2, 4, 6, 0>>) ELSE Str(<<OtherChar>>)]]

InvalidRequests ==
    {R_UnknownEndpoint, R_MissingRequired, R_XorViolation, R_UnexpectedKey,
     R_BadDate, R_BadTime}

Requests == ValidRequests \cup InvalidRequests

NoRequest == [method |-> "", args |-> NoArgs]

\* what the server answers: a status, or the transport fails (ClientError)
Statuses == {200, 304, 400, 404, 429, 500}

TransportError == 0

\* the Retry-After header of a 429 answer: absent, or a number of seconds
NoHeader == "absent"

RetryAfterHeaders == {NoHeader, "0"}

\* a Retry-After header that gives a date instead of a number of seconds
HttpDate == "Fri, 06 Nov 2026 10:00:00 GMT"

\* int(header value) returns; it raises ValueError otherwise
IsIntLiteral(h) == h \in {"0", "1", "2"}

HeaderSeconds_Ignored(h) == DefaultRetryAfter

\* int(header value)
HeaderSeconds(h) == IF h = "0" THEN 0 ELSE IF h = "1" THEN 1 ELSE 2

\* the Etag header of a 200 answer
ETags == {"W/1", "W/2"}

\* the body of a 200 answer: two JSON objects, the empty object, not JSON
Payloads == {"A", "B"}

EmptyBody == "{}"

Unparsable == "<html>"

Bodies == Payloads \cup {EmptyBody, Unparsable}

\* the names in the order of Python's string comparison, parameter names first
WordList ==
    <<"alerts", "arrdep", "color", "data", "date", "from", "id", "lineBreakCharacter",
      "station", "time", "timesel", "to", "typeOfTransport",
      "EN", "None", "composition", "connections", "de", "disturbances", "en", "eo", "fr",
      "liveboard", "nl", "stations", "timetable", "vehicle">>

\* where a name stands in WordList
RankOf ==
    [name \in {WordList[i] : i \in 1..Len(WordList)} |->
        CHOOSE i \in 1..Len(WordList) : WordList[i] = name]

Rank(name) == RankOf[name]

Word(name) == EqualsSign + Rank(name)

\* the order in which the get_ methods write the keys of extra_params
DictOrder ==
    <<"station", "id", "from", "to", "date", "time", "arrdep", "alerts", "timesel",
      "typeOfTransport", "data", "lineBreakCharacter", "color">>

\* args.items(): the items of a dict in insertion order
Items(args) ==
    IF DOMAIN args = {} THEN <<>>
    ELSE LET ks == SelectSeq(DictOrder, LAMBDA k : k \in DOMAIN args)
         IN  [i \in 1..Len(ks) |-> [k |-> ks[i], v |-> args[ks[i]]]]

\* the dict built from a sequence of items with distinct keys
DictOf(items) ==
    [k \in {items[i].k : i \in 1..Len(items)} |->
        items[CHOOSE i \in 1..Len(items) : items[i].k = k].v]

\* the cache key harness at rest
NoKeyInput == [lang |-> "en", method |-> "", items |-> <<>>]

KIdle ==
    /\ k_a = NoKeyInput
    /\ k_b = NoKeyInput
    /\ k_keys = <<>>

\* the meter of a client that has sent nothing
NoMeter == [recent |-> [i \in 1..TicksPerSec |-> 0], unchanged |-> 0]

NoStats == [total_entries |-> 0, valid_entries |-> 0, expired_entries |-> 0,
            cache_max_age_seconds |-> 0]

\* no method was called in the last step.  A call is recorded with its name,
\* its argument (text or num), whether it raised, and what it returned (num
\* or stats)
NoOp == [name |-> "", text |-> "", num |-> 0, raised |-> FALSE, stats |-> NoStats]

\* no answer was handled in the last step
NoAnswer == [caller |-> NoCaller, status |-> TransportError, body |-> EmptyBody,
             etag |-> NoHeader, retry_after |-> NoHeader]

----------------------------------------------------------------------------
(* The cache *)

sorted_Unsorted(items) == items

\* sorted(args.items()): the items in the order of their keys, which are
\* distinct; an item goes to the place that the count of smaller keys gives it
sorted(items) ==
    LET n == Len(items)
        place(i) == Cardinality({j \in 1..n : Rank(items[j].k) < Rank(items[i].k)}) + 1
    IN  [p \in 1..n |-> items[CHOOSE i \in 1..n : place(i) = p]]

\* f"{k}={v}": str(None) is the text None
FormatItem(item) ==
    <<Word(item.k), EqualsSign>> \o (IF item.v.isNone THEN <<Word("None")>> ELSE item.v.s)

RECURSIVE Join(_)
\* "|".join(key_parts)
Join(key_parts) ==
    IF key_parts = <<>> THEN <<>>
    ELSE IF Len(key_parts) = 1 THEN key_parts[1]
    ELSE key_parts[1] \o <<Bar>> \o Join(Tail(key_parts))

\* the hex digits a cache key keeps of the digest, and those that
\* invalidate_cache_for_method compares
KeyDigits == 16

PrefixDigits == 8

\* hashlib.sha256(s.encode()).hexdigest()[:n]: the digest of a string stands
\* for the string, the digests of two strings modelled here being told
\* apart by their first PrefixDigits digits
Sha256Hex(s, n) == [sha256 |-> s, hexdigits |-> n]

\* key[:n]
KeyPrefix(key, n) == [key EXCEPT !.hexdigits = Min(n, key.hexdigits)]

\* _generate_cache_key(method, args) with self.lang = l, args given as its
\* items in insertion order (<<>> for None or the empty dict)
generate_cache_key(l, method, items) ==
    LET sorted_args == sorted(items)
        key_parts == IF items # <<>>
                     THEN <<<<Word(method)>>, <<Word(l)>>>>
                          \o [i \in 1..Len(sorted_args) |-> FormatItem(sorted_args[i])]
                     ELSE <<<<Word(method)>>, <<Word(l)>>>>
        key_string == Join(key_parts)
    IN  Sha256Hex(key_string, KeyDigits)

\* no cache key: the digest of no string
NoKey == Sha256Hex(<<>>, 0)

is_expired_AtAge(entry, max_age_seconds) == entry.age >= max_age_seconds

\* CacheEntry.is_expired: time.time() - self.timestamp > max_age_seconds
is_expired(entry, max_age_seconds) == entry.age > max_age_seconds

\* _cleanup_expired_cache_entries: the cache without its expired entries
cleanup_expired(cache, max_age) ==
    [k \in {j \in DOMAIN cache : ~is_expired(cache[j], max_age)} |-> cache[k]]

CacheStore_KeepOld(cache, key, etag, data) ==
    [k \in DOMAIN cache \cup {key} |->
        IF k \in DOMAIN cache THEN cache[k] ELSE [etag |-> etag, data |-> data, age |-> 0]]

CacheStore_Torn(cache, key, etag, data) ==
    [k \in DOMAIN cache \cup {key} |->
        IF k = key
        THEN [etag |-> etag,
              data |-> IF key \in DOMAIN cache THEN cache[key].data ELSE data,
              age |-> 0]
        ELSE cache[k]]

CacheStore_OldTimestamp(cache, key, etag, data) ==
    [k \in DOMAIN cache \cup {key} |->
        IF k = key
        THEN [etag |-> etag, data |-> data,
              age |-> IF key \in DOMAIN cache THEN cache[key].age ELSE 0]
        ELSE cache[k]]

\* the entry under key, timestamp = time.time()
CacheStore(cache, key, etag, data) ==
    [k \in DOMAIN cache \cup {key} |->
        IF k = key THEN [etag |-> etag, data |-> data, age |-> 0] ELSE cache[k]]

CacheDelete(cache, key) == [k \in DOMAIN cache \ {key} |-> cache[k]]

\* an age stops growing at the first multiple of LongTickSeconds above every
\* value cache_max_age takes
AgeCap == (DefaultMaxAge \div LongTickSeconds + 1) * LongTickSeconds

AgeCache(cache) ==
    [k \in DOMAIN cache |->
        [cache[k] EXCEPT !.age = Min(AgeCap, cache[k].age + LongTickSeconds)]]

add_etag_header_Unchecked(cache, key, max_age) ==
    IF key \in DOMAIN cache
    THEN [if_none_match |-> cache[key].etag, cache |-> cache]
    ELSE [if_none_match |-> NoHeader, cache |-> cache]

\* _add_etag_header: the If-None-Match header of the request for key, and the
\* cache it leaves
add_etag_header(cache, key, max_age) ==
    LET live == cleanup_expired(cache, max_age)
    IN  IF key \in DOMAIN live
        THEN IF ~is_expired(live[key], max_age)
             THEN [if_none_match |-> live[key].etag, cache |-> live]
             ELSE [if_none_match |-> NoHeader, cache |-> CacheDelete(live, key)]
        ELSE [if_none_match |-> NoHeader, cache |-> live]

handle_success_response_AlwaysCached(cache, key, body, etag) ==
    IF body = Unparsable THEN [result |-> "None", cache |-> cache]
    ELSE IF body = EmptyBody THEN [result |-> body, cache |-> cache]
    ELSE [result |-> body, cache |-> CacheStore(cache, key, etag, body)]

\* _handle_success_response: [result, cache]
handle_success_response(cache, key, body, etag) ==
    IF body = Unparsable THEN [result |-> "None", cache |-> cache]
    ELSE IF body = EmptyBody THEN [result |-> body, cache |-> cache]
    ELSE IF etag # NoHeader
         THEN [result |-> body, cache |-> CacheStore(cache, key, etag, body)]
         ELSE [result |-> body, cache |-> cache]

handle_not_modified_Refreshed(cache, key, max_age) ==
    IF key \in DOMAIN cache
    THEN IF ~is_expired(cache[key], max_age)
         THEN [result |-> cache[key].data,
               cache |-> [cache EXCEPT ![key] = [@ EXCEPT !.age = 0]]]
         ELSE [result |-> "None", cache |-> CacheDelete(cache, key)]
    ELSE [result |-> "None", cache |-> cache]

handle_not_modified_Stale(cache, key, max_age) ==
    IF key \in DOMAIN cache
    THEN [result |-> cache[key].data, cache |-> cache]
    ELSE [result |-> "None", cache |-> cache]

\* _handle_response for status 304: [result, cache]
handle_not_modified(cache, key, max_age) ==
    IF key \in DOMAIN cache
    THEN IF ~is_expired(cache[key], max_age)
         THEN [result |-> cache[key].data, cache |-> cache]
         ELSE [result |-> "None", cache |-> CacheDelete(cache, key)]
    ELSE [result |-> "None", cache |-> cache]

set_cache_max_age_Unchecked(max_age, max_age_seconds) ==
    [raised |-> FALSE, cache_max_age |-> max_age_seconds]

\* set_cache_max_age(max_age_seconds), self.cache_max_age being max_age:
\* whether it raises ValueError, and the cache_max_age it leaves
set_cache_max_age(max_age, max_age_seconds) ==
    IF max_age_seconds <= 0
    THEN [raised |-> TRUE, cache_max_age |-> max_age]
    ELSE [raised |-> FALSE, cache_max_age |-> max_age_seconds]

\* invalidate_cache_for_method(method) with self.lang = l: the keys whose
\* first PrefixDigits digits are those of the key of (method, no args) are
\* removed: [removed_count, cache]
invalidate_cache_for_method(cache, l, method) ==
    LET method_prefix == KeyPrefix(generate_cache_key(l, method, <<>>), PrefixDigits)
        keys_to_remove ==
            {key \in DOMAIN cache :
                KeyPrefix(generate_cache_key(l, method, <<>>), PrefixDigits)
                    = KeyPrefix(key, PrefixDigits)}
    IN  [removed_count |-> Cardinality(keys_to_remove),
         cache |-> [k \in DOMAIN cache \ keys_to_remove |-> cache[k]]]

get_cache_stats_Cleaned(cache, max_age) ==
    LET live == cleanup_expired(cache, max_age)
    IN  [total_entries |-> Cardinality(DOMAIN live),
         valid_entries |-> Cardinality(DOMAIN live),
         expired_entries |-> 0,
         cache_max_age_seconds |-> max_age]

\* get_cache_stats
get_cache_stats(cache, max_age) ==
    LET total_entries == Cardinality(DOMAIN cache)
        expired_entries == Cardinality({k \in DOMAIN cache : is_expired(cache[k], max_age)})
        valid_entries == total_entries - expired_entries
    IN  [total_entries |-> total_entries,
         valid_entries |-> valid_entries,
         expired_entries |-> expired_entries,
         cache_max_age_seconds |-> max_age]

----------------------------------------------------------------------------
(* The rate limiter *)

Credit_RoundedUp(age) == (age * RefillRate) \div TicksPerSec + 1

\* int(elapsed * 3), elapsed given in ticks
Credit(age) == (age * RefillRate) \div TicksPerSec

\* the age of last_request_time stops growing once a refill fills both buckets
RequestAgeCap == (MaxBurst * TicksPerSec + RefillRate - 1) \div RefillRate

refill_tokens_Uncapped(tok, burst, age) ==
    [tokens |-> tok + Credit(age),
     burst_tokens |-> IF tok + Credit(age) >= MaxTokens THEN burst + Credit(age) ELSE burst]

refill_tokens_BurstAlways(tok, burst, age) ==
    [tokens |-> Min(MaxTokens, tok + Credit(age)),
     burst_tokens |-> Min(MaxBurst, burst + Credit(age))]

\* _refill_tokens: the two buckets after a refill (last_request_time = now)
refill_tokens(tok, burst, age) ==
    LET t == Min(MaxTokens, tok + Credit(age))
    IN  [tokens |-> t,
         burst_tokens |-> IF t = MaxTokens THEN Min(MaxBurst, burst + Credit(age))
                          ELSE burst]

\* wait_time = max(0, 1 - (time.time() - self.last_request_time)), in ticks
WaitTime(age) == Max(0, TicksPerSec - age)

----------------------------------------------------------------------------
(* The lock: asyncio.Lock.  acquire() takes a free lock that has no waiter *)
(* and otherwise queues a future; release() unlocks and sets the result of *)
(* the first waiter's future; the waiter so woken leaves the queue and     *)
(* takes the lock when it next runs.                                       *)

RemoveFrom(q, c) == SelectSeq(q, LAMBDA x : x # c)

LockFree_Barging == ~locked

LockFree_Always == TRUE

\* the future of queued caller c was cancelled before it got a result
FutCancelled(c) == pc[c] = "x_lock_wait" /\ c \notin woken

\* Lock.acquire's fast path: not locked and no waiter whose future is not
\* cancelled
LockFree == ~locked /\ \A i \in 1..Len(waiters) : FutCancelled(waiters[i])

WakeUp_None(q, wk) == wk

WakeUp_Last(q, wk) == IF q = <<>> THEN wk ELSE wk \cup {q[Len(q)]}

\* Lock._wake_up_first: the futures done after a release with queue q; a
\* first future that is done already (cancelled) is left alone
WakeUp(q, wk) ==
    IF q = <<>> \/ FutCancelled(Head(q)) THEN wk ELSE wk \cup {Head(q)}

Release_Kept(c, q, wk) ==
    /\ locked' = TRUE
    /\ holder' = c
    /\ woken' = wk

\* the end of `async with self.lock`: Lock.release() by c, the queue being q
Release(c, q, wk) ==
    /\ locked' = FALSE
    /\ holder' = NoCaller
    /\ woken' = WakeUp(q, wk)

----------------------------------------------------------------------------
(* _do_request, cut at its suspensions *)

\* A run that keeps no history (env.history = FALSE) tells a call's first GET
\* from none and records neither the keys asked for nor the answers handled.
GetsCap == IF env.history THEN MaxGets ELSE 1

Asked(key) == IF env.history THEN asked \cup {key} ELSE asked

Handled(c, status, body, etag, retry) ==
    IF env.history
    THEN [caller |-> c, status |-> status, body |-> body, etag |-> etag,
          retry_after |-> retry]
    ELSE NoAnswer

\* the meter after an acquisition that lets a GET through (sent) or starts
\* the wait, and leaves tok in self.tokens
Metered(sent, tok) ==
    IF env.window
    THEN [recent |-> IF sent THEN [meter.recent EXCEPT ![1] = @ + 1] ELSE meter.recent,
          unchanged |-> IF tok # tokens THEN 0 ELSE meter.unchanged]
    ELSE meter

\* the call of a method recorded in a run that keeps history
Did(name, text, num, raised, stats) ==
    IF env.history
    THEN [name |-> name, text |-> text, num |-> num, raised |-> raised, stats |-> stats]
    ELSE NoOp

\* one more acquisition made while no time has passed since construction
CountRapid == IF fresh THEN Min(MaxRapid, rapid + 1) ELSE rapid

\* _do_request after the lock: cache key, _add_etag_header, session.get.
\* A closed session makes session.get raise RuntimeError, which is not a
\* ClientError and leaves _do_request.  g is the call's count of GETs so far.
Send(c, r, g) ==
    LET cache_key == generate_cache_key(lang, r.method, Items(r.args))
        request_headers == add_etag_header(response_cache, cache_key, cache_max_age)
    IN  /\ response_cache' = request_headers.cache
        /\ IF session = "closed"
           THEN /\ pc' = [pc EXCEPT ![c] = "done"]
                /\ result' = [result EXCEPT ![c] = "raised"]
                /\ gets' = [gets EXCEPT ![c] = g]
                /\ ckey' = [ckey EXCEPT ![c] = NoKey]
                /\ hdr' = [hdr EXCEPT ![c] = NoHeader]
                /\ UNCHANGED asked
           ELSE /\ pc' = [pc EXCEPT ![c] = "awaiting"]
                /\ result' = [result EXCEPT ![c] = "pending"]
                /\ gets' = [gets EXCEPT ![c] = Min(GetsCap, g + 1)]
                /\ ckey' = [ckey EXCEPT ![c] = cache_key]
                /\ hdr' = [hdr EXCEPT ![c] = request_headers.if_none_match]
                /\ asked' = Asked(cache_key)

\* _handle_rate_limit by c, which has just taken the lock, the queue being q:
\* refill, then a steady token, else a burst token, else the wait
RateLimit(c, r, g, q, wk) ==
    LET rl == refill_tokens(tokens, burst_tokens, last_request_age)
    IN  /\ last_request_age' = 0
        /\ waiters' = q
        /\ IF rl.tokens < 1 /\ rl.burst_tokens < 1
           THEN /\ tokens' = rl.tokens
                /\ burst_tokens' = rl.burst_tokens
                /\ locked' = TRUE
                /\ holder' = c
                /\ woken' = wk
                /\ pc' = [pc EXCEPT ![c] = "rl_sleep"]
                /\ sleep' = [sleep EXCEPT ![c] = WaitTime(0)]
                /\ gets' = [gets EXCEPT ![c] = g]
                /\ result' = [result EXCEPT ![c] = "pending"]
                /\ meter' = Metered(FALSE, rl.tokens)
                /\ UNCHANGED <<response_cache, ckey, hdr, rapid, asked>>
           ELSE /\ tokens' = IF rl.tokens < 1 THEN rl.tokens ELSE rl.tokens - 1
                /\ burst_tokens' = IF rl.tokens < 1 THEN rl.burst_tokens - 1
                                   ELSE rl.burst_tokens
                /\ rapid' = CountRapid
                /\ meter' = Metered(TRUE, IF rl.tokens < 1 THEN rl.tokens ELSE rl.tokens - 1)
                /\ Release(c, q, wk)
                /\ Send(c, r, g)
                /\ UNCHANGED sleep

do_request_Unvalidated(c, r, g) ==
    IF session = "none"
    THEN /\ pc' = [pc EXCEPT ![c] = "done"]
         /\ result' = [result EXCEPT ![c] = "None"]
         /\ gets' = [gets EXCEPT ![c] = g]
         /\ UNCHANGED <<rlvars, lockvars, response_cache, ckey, hdr, sleep, rapid, asked, meter>>
    ELSE IF LockFree
    THEN RateLimit(c, r, g, waiters, woken)
    ELSE /\ waiters' = Append(waiters, c)
         /\ pc' = [pc EXCEPT ![c] = "lock_wait"]
         /\ gets' = [gets EXCEPT ![c] = g]
         /\ result' = [result EXCEPT ![c] = "pending"]
         /\ UNCHANGED <<rlvars, locked, holder, woken, response_cache, ckey, hdr, sleep,
                        rapid, asked, meter>>

\* _do_request(r.method, r.args) by c, from its entry to its first suspension
\* or its return
do_request(c, r, g) ==
    IF session = "none" \/ ~validate_params(r.method, r.args)
    THEN /\ pc' = [pc EXCEPT ![c] = "done"]
         /\ result' = [result EXCEPT ![c] = "None"]
         /\ gets' = [gets EXCEPT ![c] = g]
         /\ UNCHANGED <<rlvars, lockvars, response_cache, ckey, hdr, sleep, rapid, asked, meter>>
    ELSE IF LockFree
    THEN RateLimit(c, r, g, waiters, woken)
    ELSE /\ waiters' = Append(waiters, c)
         /\ pc' = [pc EXCEPT ![c] = "lock_wait"]
         /\ gets' = [gets EXCEPT ![c] = g]
         /\ result' = [result EXCEPT ![c] = "pending"]
         /\ UNCHANGED <<rlvars, locked, holder, woken, response_cache, ckey, hdr, sleep,
                        rapid, asked, meter>>

----------------------------------------------------------------------------
(* The actions *)

ClientInit ==
    /\ \E value \in ConstructorLangs : lang = lang_setter(value)
    /\ \E supplied \in BOOLEAN :
          /\ session = IF supplied THEN "open" ELSE "none"
          /\ owns_session = ~supplied
    /\ tokens = InitTokens
    /\ burst_tokens = InitBurst
    /\ last_request_age = 0
    /\ locked = FALSE
    /\ waiters = <<>>
    /\ woken = {}
    /\ holder = NoCaller
    /\ response_cache = NoArgs
    /\ cache_max_age = DefaultMaxAge
    /\ pc = [c \in Callers |-> "idle"]
    /\ req = [c \in Callers |-> NoRequest]
    /\ ckey = [c \in Callers |-> NoKey]
    /\ hdr = [c \in Callers |-> NoHeader]
    /\ sleep = [c \in Callers |-> 0]
    /\ result = [c \in Callers |-> "pending"]
    /\ gets = [c \in Callers |-> 0]
    /\ rapid = 0
    /\ fresh = TRUE
    /\ asked = {}
    /\ meter = NoMeter
    /\ answer = NoAnswer
    /\ op = NoOp

\* Spec: every request and every answer, from a server that sends no Etag; a
\* call is cancelled only while its GET is in flight
FullEnv ==
    [callers |-> 1..NumCallers, requests |-> Requests,
     statuses |-> Statuses \cup {TransportError}, bodies |-> Bodies, etags |-> {},
     retry_after |-> RetryAfterHeaders, cancel_at |-> {"awaiting"}, history |-> FALSE, window |-> FALSE]

Init ==
    /\ ClientInit
    /\ env = FullEnv
    /\ v_method = UnknownMethod
    /\ v_params = NoArgs
    /\ v_result = "pending"
    /\ KIdle

\* __aenter__
AEnter ==
    /\ answer' = NoAnswer
    /\ op' = Did("__aenter__", "", 0, FALSE, NoStats)
    /\ session' = IF session = "none" THEN "open" ELSE session
    /\ UNCHANGED <<lang, owns_session, rlvars, lockvars, cachevars, callvars, ghostvars,
                   envvars, vvars>>

AExit_ClosesAny ==
    /\ answer' = NoAnswer
    /\ op' = Did("__aexit__", "", 0, FALSE, NoStats)
    /\ session' = IF session = "open" THEN "closed" ELSE session
    /\ UNCHANGED <<lang, owns_session, rlvars, lockvars, cachevars, callvars, ghostvars,
                   envvars, vvars>>

\* __aexit__
AExit ==
    /\ answer' = NoAnswer
    /\ op' = Did("__aexit__", "", 0, FALSE, NoStats)
    /\ session' = IF session = "open" /\ owns_session THEN "closed" ELSE session
    /\ UNCHANGED <<lang, owns_session, rlvars, lockvars, cachevars, callvars, ghostvars,
                   envvars, vvars>>

\* a caller calls _do_request(r.method, r.args)
Call(c) ==
    /\ answer' = NoAnswer
    /\ op' = NoOp
    /\ pc[c] = "idle"
    /\ c \in env.callers
    /\ \E r \in env.requests :
          /\ req' = [req EXCEPT ![c] = r]
          /\ do_request(c, r, 0)
    /\ UNCHANGED <<lang, session, owns_session, cache_max_age, fresh, envvars, vvars>>

\* a waiter whose future is done runs again: it leaves the queue, takes the
\* lock and enters _handle_rate_limit
LockGranted(c) ==
    /\ answer' = NoAnswer
    /\ op' = NoOp
    /\ pc[c] = "lock_wait"
    /\ c \in woken
    /\ RateLimit(c, req[c], gets[c], RemoveFrom(waiters, c), woken \ {c})
    /\ UNCHANGED <<lang, session, owns_session, cache_max_age, req, fresh, envvars, vvars>>

\* asyncio.sleep(wait_time) in _handle_rate_limit is over: refill, take a
\* steady token, leave the lock, send
RateLimitWake(c) ==
    /\ answer' = NoAnswer
    /\ op' = NoOp
    /\ pc[c] = "rl_sleep"
    /\ sleep[c] = 0
    /\ LET rl == refill_tokens(tokens, burst_tokens, last_request_age)
       IN  /\ last_request_age' = 0
           /\ tokens' = rl.tokens - 1
           /\ burst_tokens' = rl.burst_tokens
    /\ rapid' = CountRapid
    /\ meter' = Metered(TRUE, refill_tokens(tokens, burst_tokens, last_request_age).tokens - 1)
    /\ Release(c, waiters, woken)
    /\ Send(c, req[c], gets[c])
    /\ UNCHANGED <<lang, session, owns_session, cache_max_age, waiters, req, sleep,
                   fresh, envvars, vvars>>

Answer_EvictsOnError(c, status, body, etag) ==
    LET out == IF status = 200
               THEN handle_success_response(response_cache, ckey[c], body, etag)
               ELSE IF status = 304
               THEN handle_not_modified(response_cache, ckey[c], cache_max_age)
               ELSE [result |-> "None", cache |-> CacheDelete(response_cache, ckey[c])]
    IN  /\ pc' = [pc EXCEPT ![c] = "done"]
        /\ result' = [result EXCEPT ![c] = out.result]
        /\ response_cache' = out.cache
        /\ answer' = Handled(c, status, body, etag, NoHeader)
        /\ UNCHANGED sleep

\* the answer to c's GET arrives with a status other than 429, or the
\* transport fails: _handle_response, or the except ClientError
Answer(c, status, body, etag) ==
    LET out == IF status = 200
               THEN handle_success_response(response_cache, ckey[c], body, etag)
               ELSE IF status = 304
               THEN handle_not_modified(response_cache, ckey[c], cache_max_age)
               ELSE [result |-> "None", cache |-> response_cache]
    IN  /\ pc' = [pc EXCEPT ![c] = "done"]
        /\ result' = [result EXCEPT ![c] = out.result]
        /\ response_cache' = out.cache
        /\ answer' = Handled(c, status, body, etag, NoHeader)
        /\ UNCHANGED sleep

\* the answer is 429: asyncio.sleep(retry_after); a header value that int()
\* does not accept raises ValueError, which is not a ClientError and leaves
\* _do_request
RateLimited(c, retry) ==
    /\ answer' = Handled(c, 429, EmptyBody, NoHeader, retry)
    /\ IF retry # NoHeader /\ ~IsIntLiteral(retry)
       THEN /\ pc' = [pc EXCEPT ![c] = "done"]
            /\ result' = [result EXCEPT ![c] = "raised"]
            /\ UNCHANGED <<sleep, response_cache>>
       ELSE /\ pc' = [pc EXCEPT ![c] = "retry_sleep"]
            /\ sleep' = [sleep EXCEPT ![c] =
                            TicksPerSec * (IF retry = NoHeader THEN DefaultRetryAfter
                                           ELSE HeaderSeconds(retry))]
            /\ UNCHANGED <<result, response_cache>>

Response(c) ==
    /\ op' = NoOp
    /\ pc[c] = "awaiting"
    /\ \E status \in env.statuses :
          IF status = 429 THEN \E retry \in env.retry_after : RateLimited(c, retry)
          ELSE IF status = 200
          THEN \E body \in env.bodies, etag \in env.etags \cup {NoHeader} :
                  Answer(c, status, body, etag)
          ELSE Answer(c, status, EmptyBody, NoHeader)
    /\ UNCHANGED <<lang, session, owns_session, cache_max_age, rlvars, lockvars, req,
                   ckey, hdr, gets, ghostvars, envvars, vvars>>

RetryWake_SendsDirectly(c) ==
    /\ answer' = NoAnswer
    /\ op' = NoOp
    /\ pc[c] = "retry_sleep"
    /\ sleep[c] = 0
    /\ Send(c, req[c], gets[c])
    /\ UNCHANGED <<lang, session, owns_session, cache_max_age, rlvars, lockvars, req, sleep,
                   rapid, fresh, meter, envvars, vvars>>

\* asyncio.sleep(retry_after) is over: _do_request(method, args) again
RetryWake(c) ==
    /\ answer' = NoAnswer
    /\ op' = NoOp
    /\ pc[c] = "retry_sleep"
    /\ sleep[c] = 0
    /\ do_request(c, req[c], gets[c])
    /\ UNCHANGED <<lang, session, owns_session, cache_max_age, req, fresh, envvars, vvars>>

\* the task of c's call is cancelled while it is suspended: the future it
\* waits for is cancelled (unless it is done) and the task is set to run
Cancel(c) ==
    /\ pc[c] \in env.cancel_at
    /\ pc' = [pc EXCEPT ![c] = IF pc[c] = "lock_wait" THEN "x_lock_wait"
                              ELSE IF pc[c] = "rl_sleep" THEN "x_rl_sleep"
                              ELSE IF pc[c] = "awaiting" THEN "x_awaiting"
                              ELSE "x_retry_sleep"]
    /\ sleep' = [sleep EXCEPT ![c] = 0]
    /\ answer' = NoAnswer
    /\ op' = NoOp
    /\ UNCHANGED <<lang, session, owns_session, rlvars, lockvars, cachevars, req, ckey, hdr,
                   result, gets, ghostvars, envvars, vvars>>

ExitLock_Skipped(c) == UNCHANGED lockvars

\* CancelledError passes through `async with self.lock`.  Raised in
\* Lock.acquire, the caller leaves the queue and, the lock being free, wakes
\* the first waiter; raised in _handle_rate_limit, the lock is released;
\* raised after the block, the lock is not touched.
ExitLock(c) ==
    IF pc[c] = "x_lock_wait"
    THEN /\ waiters' = RemoveFrom(waiters, c)
         /\ woken' = IF locked THEN woken \ {c}
                     ELSE WakeUp(RemoveFrom(waiters, c), woken \ {c})
         /\ UNCHANGED <<locked, holder>>
    ELSE IF pc[c] = "x_rl_sleep"
    THEN /\ Release(c, waiters, woken)
         /\ UNCHANGED waiters
    ELSE UNCHANGED lockvars

\* the cancelled task runs: CancelledError is raised at its await and leaves
\* _do_request, no except clause of which catches it
Unwind(c) ==
    /\ pc[c] \in {"x_lock_wait", "x_rl_sleep", "x_awaiting", "x_retry_sleep"}
    /\ ExitLock(c)
    /\ pc' = [pc EXCEPT ![c] = "done"]
    /\ result' = [result EXCEPT ![c] = "cancelled"]
    /\ answer' = NoAnswer
    /\ op' = NoOp
    /\ UNCHANGED <<lang, session, owns_session, rlvars, cachevars, req, ckey, hdr, sleep,
                   gets, ghostvars, envvars, vvars>>

\* the caller takes the result; it may call again
Return(c) ==
    /\ answer' = NoAnswer
    /\ op' = NoOp
    /\ pc[c] = "done"
    /\ pc' = [pc EXCEPT ![c] = "idle"]
    /\ req' = [req EXCEPT ![c] = NoRequest]
    /\ ckey' = [ckey EXCEPT ![c] = NoKey]
    /\ hdr' = [hdr EXCEPT ![c] = NoHeader]
    /\ result' = [result EXCEPT ![c] = "pending"]
    /\ gets' = [gets EXCEPT ![c] = 0]
    /\ UNCHANGED <<lang, session, owns_session, rlvars, lockvars, cachevars, sleep,
                   ghostvars, envvars, vvars>>

\* one tick passes
Tick ==
    /\ answer' = NoAnswer
    /\ op' = NoOp
    /\ last_request_age' = Min(RequestAgeCap, last_request_age + 1)
    /\ sleep' = [c \in Callers |-> Max(0, sleep[c] - 1)]
    /\ fresh' = FALSE
    /\ rapid' = 0
    /\ meter' = IF env.window
                THEN [recent |-> <<0>> \o SubSeq(meter.recent, 1, TicksPerSec - 1),
                      unchanged |-> Min(TicksPerSec, meter.unchanged + 1)]
                ELSE meter
    /\ UNCHANGED <<lang, session, owns_session, tokens, burst_tokens, lockvars, cachevars,
                   pc, req, ckey, hdr, result, gets, asked, envvars, vvars>>

\* LongTickSeconds pass
LongTick ==
    /\ answer' = NoAnswer
    /\ op' = NoOp
    /\ last_request_age' = RequestAgeCap
    /\ sleep' = [c \in Callers |-> 0]
    /\ response_cache' = AgeCache(response_cache)
    /\ fresh' = FALSE
    /\ rapid' = 0
    /\ meter' = IF env.window
                THEN [recent |-> [i \in 1..TicksPerSec |-> 0], unchanged |-> TicksPerSec]
                ELSE meter
    /\ UNCHANGED <<lang, session, owns_session, tokens, burst_tokens, lockvars,
                   cache_max_age, pc, req, ckey, hdr, result, gets, asked, envvars, vvars>>

\* the session is closed by other code than the client: by the caller that
\* supplied it, or by a call of close() on the session the client created
ExternalClose ==
    /\ answer' = NoAnswer
    /\ op' = NoOp
    /\ session = "open"
    /\ session' = "closed"
    /\ UNCHANGED <<lang, owns_session, rlvars, lockvars, cachevars, callvars, ghostvars,
                   envvars, vvars>>

\* the arguments set_cache_max_age is called with
MaxAgeArgs == {-1, 0, 1800, 3600}

\* set_cache_max_age(v)
SetCacheMaxAge ==
    /\ answer' = NoAnswer
    /\ \E v \in MaxAgeArgs :
          LET out == set_cache_max_age(cache_max_age, v)
          IN  /\ cache_max_age' = out.cache_max_age
              /\ op' = Did("set_cache_max_age", "", v, out.raised, NoStats)
    /\ UNCHANGED <<lang, session, owns_session, rlvars, lockvars, response_cache, callvars,
                   ghostvars, envvars, vvars>>

\* the arguments invalidate_cache_for_method is called with
InvalidateArgs == {"stations", "liveboard", UnknownMethod}

\* invalidate_cache_for_method(method)
InvalidateCacheForMethod ==
    /\ answer' = NoAnswer
    /\ \E method \in InvalidateArgs :
          LET out == invalidate_cache_for_method(response_cache, lang, method)
          IN  /\ response_cache' = out.cache
              /\ op' = Did("invalidate_cache_for_method", method, out.removed_count, FALSE,
                           NoStats)
    /\ UNCHANGED <<lang, session, owns_session, rlvars, lockvars, cache_max_age, callvars,
                   ghostvars, envvars, vvars>>

\* clear_cache()
ClearCache ==
    /\ answer' = NoAnswer
    /\ response_cache' = NoArgs
    /\ op' = Did("clear_cache", "", 0, FALSE, NoStats)
    /\ UNCHANGED <<lang, session, owns_session, rlvars, lockvars, cache_max_age, callvars,
                   ghostvars, envvars, vvars>>

\* get_cache_stats()
GetCacheStats ==
    /\ answer' = NoAnswer
    /\ op' = Did("get_cache_stats", "", 0, FALSE,
                 get_cache_stats(response_cache, cache_max_age))
    /\ UNCHANGED <<lang, session, owns_session, rlvars, lockvars, cachevars, callvars,
                   ghostvars, envvars, vvars>>

\* the values lang is assigned after construction
LangArgs == {"fr", "de", "eo", "EN"}

\* self.lang = value
SetLang ==
    /\ answer' = NoAnswer
    /\ \E value \in LangArgs :
          /\ lang' = lang_setter(value)
          /\ op' = Did("lang", value, 0, FALSE, NoStats)
    /\ UNCHANGED <<session, owns_session, rlvars, lockvars, cachevars, callvars, ghostvars,
                   envvars, vvars>>

Next ==
    \/ AEnter
    \/ AExit
    \/ \E c \in Callers : Call(c)
    \/ \E c \in Callers : LockGranted(c)
    \/ \E c \in Callers : RateLimitWake(c)
    \/ \E c \in Callers : Response(c)
    \/ \E c \in Callers : RetryWake(c)
    \/ \E c \in Callers : Cancel(c)
    \/ \E c \in Callers : Unwind(c)
    \/ \E c \in Callers : Return(c)
    \/ Tick
    \/ LongTick

Spec == Init /\ [][Next]_vars

\* LockSpec: NumContenders callers of one endpoint on a session supplied by
\* the caller, and a server that answers 200 or 429; no call is cancelled
LockEnv ==
    [callers |-> 1..NumContenders,
     requests |-> {[method |-> "stations", args |-> NoArgs], R_MissingRequired},
     statuses |-> {200, 429}, bodies |-> {"A"}, etags |-> {},
     retry_after |-> {NoHeader}, cancel_at |-> {}, history |-> FALSE, window |-> FALSE]

LockInit ==
    /\ ClientInit
    /\ session = "open"
    /\ env = LockEnv
    /\ v_method = UnknownMethod
    /\ v_params = NoArgs
    /\ v_result = "pending"
    /\ KIdle

LockNext ==
    \/ AEnter
    \/ AExit
    \/ \E c \in Callers : Call(c)
    \/ \E c \in Callers : LockGranted(c)
    \/ \E c \in Callers : RateLimitWake(c)
    \/ \E c \in Callers : Response(c)
    \/ \E c \in Callers : RetryWake(c)
    \/ \E c \in Callers : Return(c)
    \/ Tick
    \/ LongTick

LockSpec == LockInit /\ [][LockNext]_vars

\* the event loop runs every task that can run, and time passes
FairLockSpec ==
    /\ LockSpec
    /\ WF_vars(Tick)
    /\ \A c \in Callers : WF_vars(LockGranted(c)) /\ WF_vars(RateLimitWake(c))

\* CacheSpec: two callers of one endpoint on a session supplied by the
\* caller, a server that sends Etags and answers 200, 304, 400, 404 or 500,
\* and time that passes in strides of LongTickSeconds; the run keeps history
CacheEnv ==
    [callers |-> {1, 2}, requests |-> {[method |-> "stations", args |-> NoArgs]},
     statuses |-> {200, 304, 400, 404, 500}, bodies |-> Payloads \cup {EmptyBody},
     etags |-> ETags, retry_after |-> {}, cancel_at |-> {"awaiting"},
     history |-> TRUE, window |-> FALSE]

CacheInit ==
    /\ ClientInit
    /\ session = "open"
    /\ env = CacheEnv
    /\ v_method = UnknownMethod
    /\ v_params = NoArgs
    /\ v_result = "pending"
    /\ KIdle

CacheNext ==
    \/ \E c \in Callers : Call(c)
    \/ \E c \in Callers : LockGranted(c)
    \/ \E c \in Callers : RateLimitWake(c)
    \/ \E c \in Callers : Response(c)
    \/ \E c \in Callers : Cancel(c)
    \/ \E c \in Callers : Unwind(c)
    \/ \E c \in Callers : Return(c)
    \/ LongTick

CacheSpec == CacheInit /\ [][CacheNext]_vars

\* ExpirySpec: as CacheSpec, with two endpoints and a server that answers
\* 200 or 304 with one document
ExpiryEnv ==
    [callers |-> {1, 2}, requests |-> ValidRequests,
     statuses |-> {200, 304}, bodies |-> {"A"}, etags |-> {"W/1"}, retry_after |-> {},
     cancel_at |-> {"awaiting"}, history |-> TRUE, window |-> FALSE]

ExpiryInit ==
    /\ ClientInit
    /\ session = "open"
    /\ env = ExpiryEnv
    /\ v_method = UnknownMethod
    /\ v_params = NoArgs
    /\ v_result = "pending"
    /\ KIdle

ExpirySpec == ExpiryInit /\ [][CacheNext]_vars

\* CancelSpec: as CacheSpec, with a server that answers 200 or 429 with one
\* document and calls that are cancelled wherever they are suspended
CancelEnv ==
    [callers |-> {1, 2}, requests |-> {[method |-> "stations", args |-> NoArgs]},
     statuses |-> {200, 429}, bodies |-> {"A"}, etags |-> {"W/1"}, retry_after |-> {"0"},
     cancel_at |-> {"lock_wait", "rl_sleep", "awaiting", "retry_sleep"},
     history |-> TRUE, window |-> FALSE]

CancelInit ==
    /\ ClientInit
    /\ session = "open"
    /\ env = CancelEnv
    /\ v_method = UnknownMethod
    /\ v_params = NoArgs
    /\ v_result = "pending"
    /\ KIdle

CancelNext ==
    \/ \E c \in Callers : Call(c)
    \/ \E c \in Callers : LockGranted(c)
    \/ \E c \in Callers : RateLimitWake(c)
    \/ \E c \in Callers : Response(c)
    \/ \E c \in Callers : RetryWake(c)
    \/ \E c \in Callers : Cancel(c)
    \/ \E c \in Callers : Unwind(c)
    \/ \E c \in Callers : Return(c)
    \/ LongTick

CancelSpec == CancelInit /\ [][CancelNext]_vars

\* RetrySpec: one caller on a session supplied by the caller, and a server
\* that answers 200, 404 or 429 or fails in transport; the run keeps history
RetryEnv ==
    [callers |-> {1}, requests |-> {[method |-> "stations", args |-> NoArgs], R_MissingRequired},
     statuses |-> {200, 404, 429, TransportError}, bodies |-> {"A", EmptyBody}, etags |-> {},
     retry_after |-> {NoHeader, "0", "2"}, cancel_at |-> {}, history |-> TRUE, window |-> FALSE]

RetryInit ==
    /\ ClientInit
    /\ session = "open"
    /\ env = RetryEnv
    /\ v_method = UnknownMethod
    /\ v_params = NoArgs
    /\ v_result = "pending"
    /\ KIdle

RetryNext ==
    \/ \E c \in Callers : Call(c)
    \/ \E c \in Callers : RateLimitWake(c)
    \/ \E c \in Callers : Response(c)
    \/ \E c \in Callers : RetryWake(c)
    \/ \E c \in Callers : Return(c)
    \/ Tick

RetrySpec == RetryInit /\ [][RetryNext]_vars

\* ThrottledSpec: as RetrySpec, with a server that answers 429 to every
\* request; the event loop runs every task that can run, every GET is
\* answered, and time passes
ThrottledEnv ==
    [callers |-> {1}, requests |-> {[method |-> "stations", args |-> NoArgs], R_MissingRequired},
     statuses |-> {429}, bodies |-> {}, etags |-> {}, retry_after |-> {NoHeader, "0"},
     cancel_at |-> {}, history |-> TRUE, window |-> FALSE]

ThrottledInit ==
    /\ ClientInit
    /\ session = "open"
    /\ env = ThrottledEnv
    /\ v_method = UnknownMethod
    /\ v_params = NoArgs
    /\ v_result = "pending"
    /\ KIdle

ThrottledSpec ==
    /\ ThrottledInit
    /\ [][RetryNext]_vars
    /\ WF_vars(Tick)
    /\ \A c \in Callers :
          /\ WF_vars(RateLimitWake(c))
          /\ WF_vars(Response(c))
          /\ WF_vars(RetryWake(c))

\* AdminSpec: one caller of two endpoints on a session supplied by the
\* caller, a server that sends an Etag and answers 200 or 304, time that
\* passes in strides of LongTickSeconds, and calls of the cache's own
\* methods; the run keeps history
AdminEnv ==
    [callers |-> {1}, requests |-> ValidRequests, statuses |-> {200, 304},
     bodies |-> {"A"}, etags |-> {"W/1"}, retry_after |-> {}, cancel_at |-> {},
     history |-> TRUE, window |-> FALSE]

AdminInit ==
    /\ ClientInit
    /\ session = "open"
    /\ env = AdminEnv
    /\ v_method = UnknownMethod
    /\ v_params = NoArgs
    /\ v_result = "pending"
    /\ KIdle

AdminNext ==
    \/ \E c \in Callers : Call(c)
    \/ \E c \in Callers : RateLimitWake(c)
    \/ \E c \in Callers : Response(c)
    \/ \E c \in Callers : Return(c)
    \/ LongTick
    \/ SetCacheMaxAge
    \/ InvalidateCacheForMethod
    \/ ClearCache
    \/ GetCacheStats

AdminSpec == AdminInit /\ [][AdminNext]_vars

\* LangSpec: as AdminSpec, with one endpoint and a language that is
\* assigned between the calls
LangEnv ==
    [callers |-> {1}, requests |-> {[method |-> "stations", args |-> NoArgs]},
     statuses |-> {200, 304}, bodies |-> {"A"}, etags |-> {"W/1"}, retry_after |-> {},
     cancel_at |-> {}, history |-> TRUE, window |-> FALSE]

LangInit ==
    /\ ClientInit
    /\ session = "open"
    /\ env = LangEnv
    /\ v_method = UnknownMethod
    /\ v_params = NoArgs
    /\ v_result = "pending"
    /\ KIdle

LangNext ==
    \/ \E c \in Callers : Call(c)
    \/ \E c \in Callers : RateLimitWake(c)
    \/ \E c \in Callers : Response(c)
    \/ \E c \in Callers : Return(c)
    \/ LongTick
    \/ SetLang

LangSpec == LangInit /\ [][LangNext]_vars

\* SessionSpec: one caller on a client constructed with or without a
\* session, scopes entered and left in any order, a session that other code
\* may close, and a server that answers 200; the run keeps history
SessionEnv ==
    [callers |-> {1}, requests |-> {[method |-> "stations", args |-> NoArgs]},
     statuses |-> {200}, bodies |-> {"A"}, etags |-> {}, retry_after |-> {},
     cancel_at |-> {}, history |-> TRUE, window |-> FALSE]

SessionInit ==
    /\ ClientInit
    /\ env = SessionEnv
    /\ v_method = UnknownMethod
    /\ v_params = NoArgs
    /\ v_result = "pending"
    /\ KIdle

SessionNext ==
    \/ AEnter
    \/ AExit
    \/ ExternalClose
    \/ \E c \in Callers : Call(c)
    \/ \E c \in Callers : RateLimitWake(c)
    \/ \E c \in Callers : Response(c)
    \/ \E c \in Callers : Return(c)
    \/ Tick

SessionSpec == SessionInit /\ [][SessionNext]_vars

\* LimiterSpec: the callers of one endpoint on a session supplied by the
\* caller, and a server that answers 200; the run meters the rate limiter
LimiterEnv ==
    [callers |-> {1, 2}, requests |-> {[method |-> "stations", args |-> NoArgs]},
     statuses |-> {200}, bodies |-> {"A"}, etags |-> {}, retry_after |-> {},
     cancel_at |-> {}, history |-> FALSE, window |-> TRUE]

LimiterInit ==
    /\ ClientInit
    /\ session = "open"
    /\ env = LimiterEnv
    /\ v_method = UnknownMethod
    /\ v_params = NoArgs
    /\ v_result = "pending"
    /\ KIdle

LimiterNext ==
    \/ \E c \in Callers : Call(c)
    \/ \E c \in Callers : LockGranted(c)
    \/ \E c \in Callers : RateLimitWake(c)
    \/ \E c \in Callers : Response(c)
    \/ \E c \in Callers : Return(c)
    \/ Tick

LimiterSpec == LimiterInit /\ [][LimiterNext]_vars

\* SharedCacheSpec: two callers of two endpoints on a session supplied by
\* the caller, a server that answers 200 with either document under one
\* Etag or under none, and time that passes in strides of LongTickSeconds;
\* the run keeps history
SharedCacheEnv ==
    [callers |-> {1, 2}, requests |-> ValidRequests, statuses |-> {200},
     bodies |-> Payloads, etags |-> {"W/1"}, retry_after |-> {}, cancel_at |-> {},
     history |-> TRUE, window |-> FALSE]

SharedCacheInit ==
    /\ ClientInit
    /\ session = "open"
    /\ env = SharedCacheEnv
    /\ v_method = UnknownMethod
    /\ v_params = NoArgs
    /\ v_result = "pending"
    /\ KIdle

SharedCacheNext ==
    \/ \E c \in Callers : Call(c)
    \/ \E c \in Callers : LockGranted(c)
    \/ \E c \in Callers : RateLimitWake(c)
    \/ \E c \in Callers : Response(c)
    \/ \E c \in Callers : Return(c)
    \/ LongTick

SharedCacheSpec == SharedCacheInit /\ [][SharedCacheNext]_vars

\* FailureSpec: one caller on a client constructed with or without a
\* session, and a server that answers with every status, with bodies that
\* are or are not JSON and with Retry-After headers that are or are not
\* numbers, or fails in transport; the run keeps history
FailureEnv ==
    [callers |-> {1},
     requests |-> {[method |-> "stations", args |-> NoArgs], R_MissingRequired, R_BadDate},
     statuses |-> Statuses \cup {TransportError}, bodies |-> {"A", Unparsable},
     etags |-> {}, retry_after |-> {NoHeader, "0", HttpDate}, cancel_at |-> {},
     history |-> TRUE, window |-> FALSE]

FailureInit ==
    /\ ClientInit
    /\ env = FailureEnv
    /\ v_method = UnknownMethod
    /\ v_params = NoArgs
    /\ v_result = "pending"
    /\ KIdle

FailureNext ==
    \/ AEnter
    \/ AExit
    \/ \E c \in Callers : Call(c)
    \/ \E c \in Callers : RateLimitWake(c)
    \/ \E c \in Callers : Response(c)
    \/ \E c \in Callers : RetryWake(c)
    \/ \E c \in Callers : Return(c)
    \/ Tick

FailureSpec == FailureInit /\ [][FailureNext]_vars

----------------------------------------------------------------------------
(* The validator on its own: every method and parameter set of the bounded *)
(* input space below is validated once.                                    *)

Methods == EndpointNames \cup {UnknownMethod}

Absent == [isNone |-> TRUE, s |-> <<OtherChar>>]

PlainValues == {None, Str(<<OtherChar>>)}

\* "", "150923", "310223" (no such day), "1123" (1 January 2023), "1509230"
DateValues == {None, Str(<<>>), Str(<<1, 5, 0, 9, 2, 3>>), Str(<<3, 1, 0, 2, 2, 3>>),
               Str(<<1, 1, 2, 3>>), Str(<<1, 5, 0, 9, 2, 3, 0>>)}

\* "", "1430", "2460", "7"
TimeValues == {None, Str(<<>>), Str(<<1, 4, 3, 0>>), Str(<<2, 4, 6, 0>>), Str(<<7>>)}

\* "color" is a parameter of no endpoint
PlainKeys == <<"station", "id", "from", "to", "alerts", "color">>

\* the dict with the chosen value under each key that is not Absent
MkParams(plain, date, time) ==
    LET keys == {PlainKeys[i] : i \in {j \in 1..Len(PlainKeys) : plain[j] # Absent}}
                \cup (IF date # Absent THEN {"date"} ELSE {})
                \cup (IF time # Absent THEN {"time"} ELSE {})
    IN  [k \in keys |->
            IF k = "date" THEN date
            ELSE IF k = "time" THEN time
            ELSE plain[CHOOSE i \in 1..Len(PlainKeys) : PlainKeys[i] = k]]

ParamSets ==
    {MkParams(plain, date, time) :
        plain \in [1..Len(PlainKeys) -> PlainValues \cup {Absent}],
        date \in DateValues \cup {Absent},
        time \in TimeValues \cup {Absent}}

VInit ==
    /\ v_method \in Methods
    /\ v_params \in ParamSets
    /\ v_result = "pending"
    /\ KIdle
    /\ ClientInit
    /\ session = "none"
    /\ env = FullEnv

Validate ==
    /\ answer' = NoAnswer
    /\ op' = NoOp
    /\ v_result = "pending"
    /\ v_result' = validate_reason(v_method, v_params)
    /\ UNCHANGED <<v_method, v_params, kvars>>
    /\ UNCHANGED <<lang, session, owns_session, rlvars, lockvars, cachevars, callvars,
                   ghostvars, envvars>>

VNext == Validate

SpecValidate == VInit /\ [][VNext]_vars

----------------------------------------------------------------------------
(* _generate_cache_key on its own: the cache keys of every two requests of *)
(* the bounded input space below are generated once.                       *)

\* the items of a request's args: at most MaxItems, their keys distinct
MaxItems == 3

KeyLangs == {"en", "fr"}

KeyMethods == {"liveboard", "vehicle"}

\* station=x, station=x|time=1200, time=1200, alerts=x
KeyItems ==
    {[k |-> "station", v |-> Str(<<OtherChar>>)],
     [k |-> "station", v |-> Str(<<OtherChar, Bar, Word("time"), EqualsSign, 1, 2, 0, 0>>)],
     [k |-> "time", v |-> Str(<<1, 2, 0, 0>>)],
     [k |-> "alerts", v |-> Str(<<OtherChar>>)]}

ItemSeqs ==
    {s \in UNION {[1..n -> KeyItems] : n \in 0..MaxItems} :
        \A i, j \in 1..Len(s) : i # j => s[i].k # s[j].k}

KeyInputs == [lang : KeyLangs, method : KeyMethods, items : ItemSeqs]

KeyInit ==
    /\ k_a \in KeyInputs
    /\ k_b \in KeyInputs
    /\ k_keys = <<>>
    /\ ClientInit
    /\ session = "none"
    /\ env = FullEnv
    /\ v_method = UnknownMethod
    /\ v_params = NoArgs
    /\ v_result = "pending"

GenerateKeys ==
    /\ answer' = NoAnswer
    /\ op' = NoOp
    /\ k_keys = <<>>
    /\ k_keys' = <<generate_cache_key(k_a.lang, k_a.method, k_a.items),
                   generate_cache_key(k_b.lang, k_b.method, k_b.items)>>
    /\ UNCHANGED <<k_a, k_b, v_method, v_params, v_result>>
    /\ UNCHANGED <<lang, session, owns_session, rlvars, lockvars, cachevars, callvars,
                   ghostvars, envvars>>

KeyNext == GenerateKeys

KeySpec == KeyInit /\ [][KeyNext]_vars

----------------------------------------------------------------------------
(* Claims about _do_request and the rate limiter *)

\* C1: a call whose parameters fail validation (unknown endpoint, missing
\* required parameter, xor violation, unexpected key, malformed date or
\* time) issues no GET and returns None.
C1_InvalidNotSent ==
    \A c \in Callers :
        req[c] \in InvalidRequests =>
            /\ gets[c] = 0
            /\ pc[c] = "done"
            /\ result[c] = "None"

\* on an open session, a vehicle call without its id has returned None
\* with no GET and without touching the token buckets
C1_Witness ==
    \E c \in Callers :
        /\ session = "open"
        /\ req[c] = R_MissingRequired
        /\ pc[c] = "done"
        /\ result[c] = "None"
        /\ gets[c] = 0
        /\ tokens = InitTokens
        /\ burst_tokens = InitBurst

\* C6: on a fresh client (3 steady, 5 burst tokens) the first 8 acquisitions
\* made before any time passes complete without suspending, 3 on steady
\* tokens and then 5 on burst tokens; the 9th suspends, for a second, and
\* completes only after time has passed and the tokens were refilled.
C6_EightThenWait ==
    fresh =>
        /\ rapid <= InitTokens + InitBurst
        /\ tokens = InitTokens - Min(rapid, InitTokens)
        /\ burst_tokens = InitBurst - Max(0, rapid - InitTokens)
        /\ \A c \in Callers :
              pc[c] = "rl_sleep" =>
                  /\ rapid = InitTokens + InitBurst
                  /\ sleep[c] = TicksPerSec

\* no time has passed, 8 acquisitions are complete and the 9th is suspended
C6_Witness ==
    /\ fresh
    /\ rapid = 8
    /\ tokens = 0
    /\ burst_tokens = 0
    /\ \E c \in Callers : pc[c] = "rl_sleep"

\* the callers inside the rate limiter's critical section (the wait is its
\* one suspension)
InLimiter == {c \in Callers : pc[c] = "rl_sleep"}

\* C7: at most one caller at a time is inside the refill-and-decide sequence,
\* its wait included, and it holds the lock; tokens, burst_tokens and
\* last_request_time are written only in a step of a caller that holds the
\* lock or takes the free lock in that step.
C7_CriticalSection ==
    [][/\ Cardinality(InLimiter') <= 1
       /\ \A c \in InLimiter' : locked' /\ holder' = c
       /\ (tokens' # tokens \/ burst_tokens' # burst_tokens
              \/ last_request_age' < last_request_age)
            => \E a \in Callers :
                  /\ pc'[a] # pc[a]
                  /\ holder \in {a, NoCaller}
                  /\ holder = NoCaller => ~locked]_vars

\* one caller waits inside the rate limiter with the lock, two are queued
C7_Witness ==
    \E a \in Callers :
        /\ pc[a] = "rl_sleep"
        /\ holder = a
        /\ Len(waiters) = 2

\* c takes the lock without having queued
TakesDirectly(c) ==
    /\ pc[c] \in {"idle", "retry_sleep"}
    /\ pc'[c] \in {"rl_sleep", "awaiting"}

\* C8: callers queued on the lock are served in the order in which they
\* started to wait: the queue grows at its end, a queued caller gets the
\* lock only from the head, and no caller takes the lock past the queue.
C8_FirstComeFirstServed ==
    [][\A c \in Callers :
          /\ (pc[c] = "lock_wait" /\ pc'[c] # "lock_wait") =>
                 /\ c = Head(waiters)
                 /\ waiters' = Tail(waiters)
          /\ (pc[c] # "lock_wait" /\ pc'[c] = "lock_wait") =>
                 waiters' = Append(waiters, c)
          /\ TakesDirectly(c) => waiters = <<>>]_vars

\* two callers are queued and the head of the queue has been woken
C8_Witness ==
    /\ Len(waiters) = 2
    /\ Head(waiters) \in woken
    /\ ~locked

\* C9: a caller does not hold the lock while its GET is in flight, while the
\* answer is interpreted or while it sleeps for a 429; the lock is held only
\* across the rate limiter's own wait.
C9_LockNotHeldWhileSending ==
    /\ \A c \in Callers : pc[c] \in {"awaiting", "retry_sleep", "done"} => holder # c
    /\ locked <=> holder # NoCaller
    /\ locked => pc[holder] = "rl_sleep"

\* one caller sleeps for a 429 and one awaits its answer while a third
\* holds the lock in the rate limiter's wait
C9_Witness ==
    \E a, b, c \in Callers :
        /\ pc[a] = "retry_sleep"
        /\ sleep[a] > 0
        /\ pc[b] = "awaiting"
        /\ pc[c] = "rl_sleep"
        /\ holder = c

\* C10: under fair scheduling and advancing time, every caller that reaches
\* the rate-limiting step (queued on the lock, or in the limiter's wait)
\* leaves it with its GET sent.
C10_EventuallySends ==
    \A c \in Callers :
        (pc[c] \in {"lock_wait", "rl_sleep"}) ~> (pc[c] = "awaiting")

\* a caller is queued on the lock behind another while the holder waits
\* for tokens
C10_Witness ==
    \E a \in Callers :
        /\ pc[a] = "rl_sleep"
        /\ sleep[a] = TicksPerSec
        /\ Len(waiters) = 2
        /\ tokens < 1
        /\ burst_tokens < 1

----------------------------------------------------------------------------
(* Claims about cancellation, checked under CancelSpec *)

\* the cancelled task of c runs and leaves _do_request
Unwinds(c) ==
    /\ pc[c] \in {"x_lock_wait", "x_rl_sleep", "x_awaiting", "x_retry_sleep"}
    /\ pc'[c] = "done"

\* every cache entry is whole: an Etag the server sent and a parsed body
WholeEntries(cache) ==
    \A k \in DOMAIN cache :
        /\ cache[k].etag \in ETags
        /\ cache[k].data \in Payloads
        /\ cache[k].age \in 0..AgeCap

\* C11: when a call cancelled in the lock's queue, in the rate limiter's
\* wait, in network I/O or in a Retry-After sleep is unwound, the caller
\* neither holds the lock nor stays in its queue, a lock it held is free
\* again, the first caller queued on a free lock is woken (or is itself
\* cancelled and about to pass the lock on), and the cache is what it was,
\* with whole entries only.
C11_CancelReleasesLock ==
    [][\A c \in Callers :
          Unwinds(c) =>
              /\ result'[c] = "cancelled"
              /\ holder' # c
              /\ holder = c => ~locked'
              /\ \A i \in 1..Len(waiters') : waiters'[i] # c
              /\ (~locked' /\ waiters' # <<>>) =>
                     \/ Head(waiters') \in woken'
                     \/ pc'[Head(waiters')] = "x_lock_wait"
              /\ response_cache' = response_cache
              /\ WholeEntries(response_cache')]_vars

\* a caller cancelled in the rate limiter's wait has been unwound: the lock
\* it held is free and the caller queued behind it is woken, while the
\* cache holds an entry
C11_Witness ==
    \E c \in Callers :
        /\ pc[c] = "done"
        /\ result[c] = "cancelled"
        /\ tokens < 1
        /\ burst_tokens < 1
        /\ ~locked
        /\ waiters # <<>>
        /\ Head(waiters) \in woken
        /\ response_cache # NoArgs

----------------------------------------------------------------------------
(* Claims about the cache, checked under CacheSpec and ExpirySpec *)

\* this step handles an answer with the given status to c's GET
Handles(c, status) == answer'.caller = c /\ answer'.status = status

\* the cache holds an entry for key that is not expired
Live(key) ==
    key \in DOMAIN response_cache /\ ~is_expired(response_cache[key], cache_max_age)

\* C12 as stated: after a 200 carrying an Etag the cache holds the entry of
\* the request's fingerprint, and a 304 that finds the entry returns its payload.
C12_Original ==
    \A c \in Callers :
        /\ (answer.caller = c /\ answer.status = 200 /\ answer.etag # NoHeader)
              => ckey[c] \in DOMAIN response_cache
        /\ (answer.caller = c /\ answer.status = 304 /\ ckey[c] \in DOMAIN response_cache)
              => result[c] = response_cache[ckey[c]].data

\* C12 (amended): a 200 carrying an Etag and a non-empty JSON body leaves
\* under the request's fingerprint the one entry made of that Etag and that
\* body, and the body is returned; the Etag and payload of an entry come
\* from no other step; and a 304 for a fingerprint whose entry is unexpired
\* returns the payload of that entry, which is the body of the last such 200.
C12_CachedThenServed ==
    [][/\ \A c \in Callers :
            /\ (Handles(c, 200) /\ answer'.etag # NoHeader /\ answer'.body \in Payloads)
                  => /\ ckey[c] \in DOMAIN response_cache'
                     /\ response_cache'[ckey[c]] =
                            [etag |-> answer'.etag, data |-> answer'.body, age |-> 0]
                     /\ result'[c] = answer'.body
            /\ (Handles(c, 304) /\ Live(ckey[c]))
                  => /\ result'[c] = response_cache[ckey[c]].data
                     /\ response_cache' = response_cache
       /\ \A k \in DOMAIN response_cache' :
            (\/ k \notin DOMAIN response_cache
             \/ response_cache'[k].data # response_cache[k].data
             \/ response_cache'[k].etag # response_cache[k].etag)
                => /\ answer'.status = 200
                   /\ answer'.caller \in Callers
                   /\ ckey[answer'.caller] = k
                   /\ response_cache'[k].data = answer'.body
                   /\ response_cache'[k].etag = answer'.etag]_vars

\* a 304 has just been answered from an entry that a stride of time has
\* aged, to a request that carried the entry's Etag
C12_Witness ==
    \E c \in Callers :
        /\ answer.caller = c
        /\ answer.status = 304
        /\ pc[c] = "done"
        /\ ckey[c] \in DOMAIN response_cache
        /\ response_cache[ckey[c]].age = LongTickSeconds
        /\ response_cache[ckey[c]].data = "B"
        /\ result[c] = "B"
        /\ hdr[c] = response_cache[ckey[c]].etag

\* C13: a 200 that carries no Etag header leaves the cache as it was, no
\* entry created or replaced, and the call returns the parsed body.
C13_NoEtagNotCached ==
    [][\A c \in Callers :
          (Handles(c, 200) /\ answer'.etag = NoHeader)
              => /\ response_cache' = response_cache
                 /\ pc'[c] = "done"
                 /\ result'[c] = answer'.body]_vars

\* a 200 without Etag has returned body B while the cache keeps, under the
\* same fingerprint, the entry made of an earlier body A
C13_Witness ==
    \E c \in Callers :
        /\ answer.caller = c
        /\ answer.status = 200
        /\ answer.etag = NoHeader
        /\ answer.body = "B"
        /\ result[c] = "B"
        /\ ckey[c] \in DOMAIN response_cache
        /\ response_cache[ckey[c]].data = "A"

\* c's GET is sent in this step
Sends(c) == pc[c] # "awaiting" /\ pc'[c] = "awaiting"

\* C14: a GET carries If-None-Match exactly when, as its headers are built,
\* the cache holds an unexpired entry for the request's fingerprint, and the
\* header is then that entry's Etag; the first GET for a fingerprint
\* carries none.
C14_ConditionalHeader ==
    [][\A c \in Callers :
          Sends(c) =>
              /\ ckey'[c] = generate_cache_key(lang, req'[c].method, Items(req'[c].args))
              /\ hdr'[c] # NoHeader <=> Live(ckey'[c])
              /\ Live(ckey'[c]) => hdr'[c] = response_cache[ckey'[c]].etag
              /\ ckey'[c] \notin asked => hdr'[c] = NoHeader]_vars

\* a GET in flight carries the Etag W/2 of the entry of its fingerprint,
\* which a stride of time has aged, while the other caller's GET for the
\* same fingerprint, sent before the entry was replaced, carries W/1
C14_Witness ==
    \E c, d \in Callers :
        /\ pc[c] = "awaiting"
        /\ hdr[c] = "W/2"
        /\ ckey[c] \in DOMAIN response_cache
        /\ response_cache[ckey[c]].etag = "W/2"
        /\ response_cache[ckey[c]].age = LongTickSeconds
        /\ pc[d] = "awaiting"
        /\ ckey[d] = ckey[c]
        /\ hdr[d] = "W/1"

\* C15: when the headers of a GET are built, every entry older than
\* cache_max_age leaves the cache and every entry of age cache_max_age or
\* less stays as it is; the GET carries no If-None-Match if the entry of its
\* fingerprint was older than cache_max_age, and that entry's Etag if it
\* was not.
C15_ExpiredPurged ==
    [][\A c \in Callers :
          Sends(c) =>
              /\ DOMAIN response_cache' =
                     {k \in DOMAIN response_cache : response_cache[k].age <= cache_max_age}
              /\ \A k \in DOMAIN response_cache' : response_cache'[k] = response_cache[k]
              /\ ckey'[c] \in DOMAIN response_cache =>
                     hdr'[c] = IF response_cache[ckey'[c]].age > cache_max_age
                               THEN NoHeader
                               ELSE response_cache[ckey'[c]].etag]_vars

\* a GET has been sent without If-None-Match for a fingerprint asked for
\* before, whose entry is gone, while the entry of the other fingerprint,
\* of age cache_max_age exactly, is still there
C15_Witness ==
    \E c \in Callers :
        /\ pc[c] = "awaiting"
        /\ hdr[c] = NoHeader
        /\ gets[c] = 1
        /\ Cardinality(asked) = 2
        /\ ckey[c] \notin DOMAIN response_cache
        /\ \E k \in DOMAIN response_cache : response_cache[k].age = cache_max_age
        /\ \A d \in Callers \ {c} : pc[d] = "idle"

\* C16: a 304 ends the call: with the payload of the fingerprint's entry,
\* the cache untouched, when that entry is not older than cache_max_age;
\* with None, that entry and no other removed, when it is older; with None,
\* the cache untouched, when there is no entry.
C16_NotModified ==
    [][\A c \in Callers :
          Handles(c, 304) =>
              /\ pc'[c] = "done"
              /\ IF ckey[c] \notin DOMAIN response_cache
                 THEN /\ result'[c] = "None"
                      /\ response_cache' = response_cache
                 ELSE IF response_cache[ckey[c]].age <= cache_max_age
                 THEN /\ result'[c] = response_cache[ckey[c]].data
                      /\ response_cache' = response_cache
                 ELSE /\ result'[c] = "None"
                      /\ DOMAIN response_cache' = DOMAIN response_cache \ {ckey[c]}
                      /\ \A k \in DOMAIN response_cache' :
                            response_cache'[k] = response_cache[k]]_vars

\* a GET that went out with an Etag has been answered 304 after its entry
\* expired: the call has returned None and the entry is gone
C16_Witness ==
    \E c \in Callers :
        /\ answer.caller = c
        /\ answer.status = 304
        /\ hdr[c] # NoHeader
        /\ pc[c] = "done"
        /\ result[c] = "None"
        /\ ckey[c] \notin DOMAIN response_cache
        /\ \A d \in Callers \ {c} : pc[d] = "idle"

----------------------------------------------------------------------------
(* Claims about retries and failures, checked under RetrySpec, ThrottledSpec *)
(* and CacheSpec                                                           *)

\* C17: a 429 puts the call to sleep for the seconds of its Retry-After
\* header, 1 when there is none, issuing no GET; the sleep ends only when
\* that time has passed, and the call then goes on with the same method and
\* arguments to its next GET, one more than before; a 200 ends the call with
\* the body of that answer, so that a call answered 429 and then 200 returns
\* the 200 body after one retry.
C17_RetryAfter429 ==
    [][\A c \in Callers :
          /\ Handles(c, 429) =>
                 /\ pc'[c] = "retry_sleep"
                 /\ sleep'[c] = TicksPerSec * (CASE answer'.retry_after = NoHeader -> 1
                                                 [] answer'.retry_after = "0" -> 0
                                                 [] answer'.retry_after = "2" -> 2)
                 /\ req'[c] = req[c]
                 /\ gets'[c] = gets[c]
          /\ (pc[c] = "retry_sleep" /\ pc'[c] # "retry_sleep") =>
                 /\ sleep[c] = 0
                 /\ pc'[c] \in {"rl_sleep", "awaiting"}
          /\ (pc[c] \in {"retry_sleep", "rl_sleep"} /\ pc'[c] = "awaiting") =>
                 /\ req'[c] = req[c]
                 /\ ckey'[c] = generate_cache_key(lang, req[c].method, Items(req[c].args))
                 /\ gets[c] < MaxGets => gets'[c] = gets[c] + 1
          /\ Handles(c, 200) =>
                 /\ pc'[c] = "done"
                 /\ result'[c] = answer'.body
                 /\ gets'[c] = gets[c]]_vars

\* a call has returned body A from the 200 that answered its second GET
C17_Witness ==
    \E c \in Callers :
        /\ answer.caller = c
        /\ answer.status = 200
        /\ pc[c] = "done"
        /\ result[c] = "A"
        /\ gets[c] = 2

\* C18 as stated: against a server that answers 429 to every request, a call
\* whose GET is in flight comes to an end.
C18_RetriesEnd ==
    \A c \in Callers : (pc[c] = "awaiting") ~> (pc[c] = "done")

\* C19 as stated: a transport failure (connection error, timeout) is retried
\* up to a ceiling of three attempts, so the failure of a call's first GET
\* does not end the call.
C19_FailureRetried ==
    [][\A c \in Callers :
          (Handles(c, TransportError) /\ gets[c] = 1) => pc'[c] # "done"]_vars

\* C20: an answer with status 400, 404 or any status other than 200, 304
\* and 429 ends the call in that step with None, with no GET added and the
\* cache as it was; and a call that has ended sends nothing more.
C20_ErrorStatusEnds ==
    [][\A c \in Callers :
          /\ (answer'.caller = c /\ answer'.status \notin {200, 304, 429, TransportError})
                => /\ pc'[c] = "done"
                   /\ result'[c] = "None"
                   /\ gets'[c] = gets[c]
                   /\ response_cache' = response_cache
          /\ pc[c] = "done"
                => /\ pc'[c] \in {"done", "idle"}
                   /\ gets'[c] \in {gets[c], 0}]_vars

\* a conditional GET has been answered 500: the call has returned None
\* after that one GET and the entry of its fingerprint is still cached
C20_Witness ==
    \E c \in Callers :
        /\ answer.caller = c
        /\ answer.status = 500
        /\ pc[c] = "done"
        /\ result[c] = "None"
        /\ gets[c] = 1
        /\ hdr[c] # NoHeader
        /\ ckey[c] \in DOMAIN response_cache

----------------------------------------------------------------------------
(* Claims about the validator, checked under SpecValidate *)

Validated == v_result # "pending"

KnownEndpoint == v_method \in EndpointNames

\* the names the endpoint of v_method declares
RequiredNames == Range(endpoints[v_method].required)

XorNames == Range(endpoints[v_method].xor)

AllowedNames == RequiredNames \cup XorNames \cup Range(endpoints[v_method].optional)

\* the members of a set of names that params gives a value other than None
Valued(names) == {k \in names : k \in DOMAIN v_params /\ v_params[k] # None}

\* C2: for a known endpoint, a parameter set in which a required parameter
\* is absent or None is rejected by _validate_params.
C2_RequiredMissingRejected ==
    (Validated /\ KnownEndpoint /\ Valued(RequiredNames) # RequiredNames)
        => v_result # "ok"

\* a required parameter is given as None while the others are fine, and the
\* validator has rejected the call for it
C2_Witness ==
    /\ v_method = "connections"
    /\ DOMAIN v_params = {"from", "to"}
    /\ v_params["from"] # None
    /\ v_params["to"] = None
    /\ v_result = "required"

\* the conditions C3 names: required present and not None, exactly one xor
\* member with a value when the endpoint has an xor group, no other key
C3_Preconditions ==
    /\ KnownEndpoint
    /\ Valued(RequiredNames) = RequiredNames
    /\ XorNames # {} => Cardinality(Valued(XorNames)) = 1
    /\ DOMAIN v_params \subseteq AllowedNames

\* C3 as stated: required + exactly-one-xor + no-unexpected-keys is accepted.
C3_Original == (Validated /\ C3_Preconditions) => v_result = "ok"

DateTimeWellFormed ==
    /\ "date" \in DOMAIN v_params =>
          \/ v_params["date"] \in {None, Str(<<>>)}
          \/ StrptimeDate(v_params["date"].s)
    /\ "time" \in DOMAIN v_params =>
          \/ v_params["time"] \in {None, Str(<<>>)}
          \/ StrptimeTime(v_params["time"].s)

\* C3 (amended): required + exactly-one-xor + no-unexpected-keys is accepted
\* when, in addition, date and time (if given) are None, empty or well-formed.
C3_ValidAccepted ==
    (Validated /\ C3_Preconditions /\ DateTimeWellFormed) => v_result = "ok"

\* a liveboard call with one xor member, an optional None and good date and
\* time has been accepted
C3_Witness ==
    /\ v_method = "liveboard"
    /\ DOMAIN v_params = {"station", "alerts", "date", "time"}
    /\ v_params["station"] # None
    /\ v_params["alerts"] = None
    /\ v_params["date"] = Str(<<1, 5, 0, 9, 2, 3>>)
    /\ v_params["time"] = Str(<<1, 4, 3, 0>>)
    /\ v_result = "ok"

\* C4: liveboard is rejected when none or both of station and id have a
\* value, and is not rejected by the xor rule when exactly one has.
C4_LiveboardXor ==
    (Validated /\ v_method = "liveboard") =>
        /\ Cardinality(Valued({"station", "id"})) # 1 => v_result # "ok"
        /\ Cardinality(Valued({"station", "id"})) = 1 => v_result # "xor"

\* a liveboard call giving both station and id has been rejected by the xor rule
C4_Witness ==
    /\ v_method = "liveboard"
    /\ v_result = "xor"
    /\ Cardinality(Valued({"station", "id"})) = 2

\* C5: for a known endpoint, a parameter set with a key outside
\* required, xor and optional is rejected, whatever else it holds.
C5_UnexpectedRejected ==
    (Validated /\ KnownEndpoint /\ ~(DOMAIN v_params \subseteq AllowedNames))
        => v_result # "ok"

\* an otherwise valid vehicle call carrying a key of another endpoint, given
\* as None, has been rejected as unexpected
C5_Witness ==
    /\ v_method = "vehicle"
    /\ DOMAIN v_params = {"id", "station"}
    /\ v_params["station"] = None
    /\ v_result = "unexpected"

----------------------------------------------------------------------------
(* Claims about cache keys, checked under KeySpec *)

KeysGenerated == k_keys # <<>>

\* C25: for one language and one method, two args dicts that hold the same
\* key-value pairs, in whatever order they were inserted, get the same cache
\* key.
C25_OrderIndependent ==
    (/\ KeysGenerated
     /\ k_a.lang = k_b.lang
     /\ k_a.method = k_b.method
     /\ DictOf(k_a.items) = DictOf(k_b.items))
        => k_keys[1] = k_keys[2]

\* the same three pairs, inserted in the order station, time, alerts and in
\* the order time, alerts, station, have got the same cache key
C25_Witness ==
    /\ KeysGenerated
    /\ k_a.lang = k_b.lang
    /\ k_a.method = k_b.method
    /\ Len(k_a.items) = 3
    /\ Len(k_b.items) = 3
    /\ <<k_a.items[1].k, k_a.items[2].k, k_a.items[3].k>> = <<"station", "time", "alerts">>
    /\ <<k_b.items[1].k, k_b.items[2].k, k_b.items[3].k>> = <<"time", "alerts", "station">>
    /\ DictOf(k_a.items) = DictOf(k_b.items)
    /\ k_keys[1] = k_keys[2]

\* the request of a key harness input passes _validate_params
KeyInputValid(x) == validate_params(x.method, DictOf(x.items))

\* C26 as stated: two requests that pass validation and differ in endpoint,
\* in language or in their key-value pairs have different cache keys.
C26_KeysDistinct ==
    (/\ KeysGenerated
     /\ KeyInputValid(k_a)
     /\ KeyInputValid(k_b)
     /\ \/ k_a.method # k_b.method
        \/ k_a.lang # k_b.lang
        \/ DictOf(k_a.items) # DictOf(k_b.items))
        => k_keys[1] # k_keys[2]

----------------------------------------------------------------------------
(* Claims about failures, checked under FailureSpec *)

\* C21 as stated: whatever fails on the path of a request (validation, any
\* status, the transport, a Retry-After that is no number, a body that is
\* not JSON, a closed or missing session), the call ends with None or with
\* the body of the answer, and no exception leaves _do_request.
C21_NoExceptionEscapes ==
    \A c \in Callers :
        pc[c] = "done" => result[c] \in {"None"} \cup (Bodies \ {Unparsable})

----------------------------------------------------------------------------
(* Claims about the cache's own methods, checked under AdminSpec, and about *)
(* the language, checked under LangSpec                                    *)

\* C22: set_cache_max_age(v) with v <= 0 raises and leaves cache_max_age and
\* the cache as they were; with v > 0 it raises nothing, sets cache_max_age
\* to v and leaves the cache as it was; nothing else raises or changes
\* cache_max_age, which starts at 3600 and is positive throughout.
C22_MaxAgePositive ==
    /\ cache_max_age = 3600
    /\ [][/\ op'.name = "set_cache_max_age" =>
               /\ response_cache' = response_cache
               /\ IF op'.num <= 0
                  THEN op'.raised /\ cache_max_age' = cache_max_age
                  ELSE ~op'.raised /\ cache_max_age' = op'.num
          /\ op'.name # "set_cache_max_age" =>
               /\ ~op'.raised
               /\ cache_max_age' = cache_max_age
          /\ cache_max_age' > 0]_vars

\* set_cache_max_age(0) has raised on a client whose cache_max_age is 1800
\* and whose cache holds an entry older than that
C22_Witness ==
    /\ op.name = "set_cache_max_age"
    /\ op.num = 0
    /\ op.raised
    /\ cache_max_age = 1800
    /\ \E k \in DOMAIN response_cache : response_cache[k].age > cache_max_age

\* the method a cache key was generated for
KeyMethod(key) ==
    CHOOSE m \in EndpointNames \cup {UnknownMethod} : Word(m) = Head(key.sha256)

\* C23 as stated: invalidate_cache_for_method(method) removes the entries
\* stored for requests to that method, whatever their arguments, and no
\* other entry, and returns the number of entries removed; clear_cache
\* removes every entry.
C23_InvalidateByMethod ==
    [][/\ op'.name = "invalidate_cache_for_method" =>
           /\ DOMAIN response_cache' =
                  {k \in DOMAIN response_cache : KeyMethod(k) # op'.text}
           /\ \A k \in DOMAIN response_cache' : response_cache'[k] = response_cache[k]
           /\ op'.num = Cardinality(DOMAIN response_cache \ DOMAIN response_cache')
       /\ op'.name = "clear_cache" => DOMAIN response_cache' = {}]_vars

\* C24: get_cache_stats leaves the cache and cache_max_age as they are, and
\* reports the number of entries, the number of entries older than
\* cache_max_age, the difference of the two as the valid entries, and
\* cache_max_age.
C24_StatsReadOnly ==
    [][op'.name = "get_cache_stats" =>
          LET total == Cardinality(DOMAIN response_cache)
              expired == Cardinality({k \in DOMAIN response_cache :
                                         response_cache[k].age > cache_max_age})
          IN  /\ response_cache' = response_cache
              /\ cache_max_age' = cache_max_age
              /\ op'.stats.total_entries = total
              /\ op'.stats.expired_entries = expired
              /\ op'.stats.valid_entries = total - expired
              /\ op'.stats.cache_max_age_seconds = cache_max_age]_vars

\* get_cache_stats has reported two entries, one of them expired, with
\* cache_max_age set to 1800, and both entries are still in the cache
C24_Witness ==
    /\ op.name = "get_cache_stats"
    /\ op.stats = [total_entries |-> 2, valid_entries |-> 1, expired_entries |-> 1,
                   cache_max_age_seconds |-> 1800]
    /\ Cardinality(DOMAIN response_cache) = 2
    /\ \E k \in DOMAIN response_cache : response_cache[k].age = LongTickSeconds

\* C29: the language is one of nl, fr, en, de after construction and after
\* every step; assigning one of the four stores it, assigning anything else
\* stores en, neither raises, and nothing else changes the language.
C29_LangValid ==
    /\ lang \in {"nl", "fr", "en", "de"}
    /\ [][/\ lang' \in {"nl", "fr", "en", "de"}
          /\ op'.name = "lang" =>
               /\ lang' = IF op'.text \in {"nl", "fr", "en", "de"} THEN op'.text ELSE "en"
               /\ ~op'.raised
          /\ op'.name # "lang" => lang' = lang]_vars

\* the language, which was de when a response was cached, is en after the
\* assignment of eo
C29_Witness ==
    /\ op.name = "lang"
    /\ op.text = "eo"
    /\ lang = "en"
    /\ \E k \in DOMAIN response_cache : k.sha256[3] = Word("de")

----------------------------------------------------------------------------
(* Claims about the session, checked under SessionSpec *)

\* C27: a session supplied by the caller (the client does not own it) is
\* never closed by the client: it changes only when other code closes it;
\* __aexit__ closes a session the client created if it is open; and
\* __aexit__ on a session that is closed already, or on no session, changes
\* nothing; __aexit__ raises nothing, and ownership never changes.
C27_SessionOwnership ==
    [][/\ (~owns_session /\ session' # session) => ExternalClose
       /\ (op'.name = "__aexit__" /\ owns_session /\ session = "open")
             => session' = "closed"
       /\ (op'.name = "__aexit__" /\ session # "open") => session' = session
       /\ op'.name = "__aexit__" => ~op'.raised
       /\ owns_session' = owns_session]_vars

\* the scope of a client that created its session is left a second time,
\* after a call has found the session closed
C27_Witness ==
    /\ op.name = "__aexit__"
    /\ owns_session
    /\ session = "closed"
    /\ \E c \in Callers : pc[c] = "done" /\ result[c] = "raised"

----------------------------------------------------------------------------
(* Claims about the pace of the rate limiter, checked under LimiterSpec *)

RECURSIVE SumSeq(_)
SumSeq(s) == IF s = <<>> THEN 0 ELSE Head(s) + SumSeq(Tail(s))

\* the GETs let through at the last TicksPerSec instants, the first and the
\* last of which are less than one second apart
LetThrough == SumSeq(meter.recent)

\* C28 as stated: in no window of one second does the rate limiter let
\* through more than the 3 steady and the 5 burst requests, 8 in all.
C28_EightPerSecond == LetThrough <= 3 + 5

\* an acquisition by c runs _refill_tokens in this step
Refills(c) ==
    \/ pc[c] \in {"idle", "lock_wait", "retry_sleep"} /\ pc'[c] \in {"rl_sleep", "awaiting"}
    \/ pc[c] = "rl_sleep" /\ pc'[c] = "awaiting"

\* C30 as stated: the credit of an interval does not depend on the refills
\* it is split into: an acquisition that finds the steady bucket empty one
\* second or more after it was emptied, no token having been credited or
\* taken since, refills the bucket to its 3 tokens and takes one of them,
\* however many acquisitions were attempted in between.
C30_FullAfterOneSecond ==
    [][\A c \in Callers :
          (Refills(c) /\ tokens = 0 /\ meter.unchanged >= TicksPerSec)
              => tokens' = 3 - 1]_vars

\* the steady tokens after the steady refill of an acquisition made now
SteadyRefilled == Min(3, tokens + Credit(last_request_age))

\* C31: the burst tokens grow only in a refill whose steady refill leaves
\* the steady tokens at 3; a refill that leaves them below 3 leaves the burst
\* tokens as they are, the acquisition then taking one of them if no steady
\* token is left; and the burst tokens never exceed 5.
C31_BurstRefill ==
    /\ burst_tokens <= 5
    /\ [][/\ burst_tokens' <= 5
          /\ burst_tokens' > burst_tokens
                => (SteadyRefilled = 3 /\ \E c \in Callers : Refills(c))
          /\ ((\E c \in Callers : Refills(c)) /\ SteadyRefilled < 3)
                => burst_tokens' = IF SteadyRefilled < 1 /\ burst_tokens >= 1
                                   THEN burst_tokens - 1
                                   ELSE burst_tokens]_vars

\* the burst bucket, emptied, has been credited 3 tokens by the refill that
\* filled the steady bucket, of which the acquisition took one
C31_Witness ==
    /\ tokens = 2
    /\ burst_tokens = 3
    /\ last_request_age = 0

\* C34: the steady tokens are at most 3 and at least -1 and the burst tokens
\* are between 0 and 5, in every state; and an acquisition that finds a
\* negative steady count, a third of a second or more after the last
\* refill, leaves a count that is not negative.
C34_TokenBounds ==
    /\ tokens \in -1..3
    /\ burst_tokens \in 0..5
    /\ [][/\ tokens' \in -1..3
          /\ burst_tokens' \in 0..5
          /\ ((\E c \in Callers : Refills(c)) /\ tokens < 0 /\ Credit(last_request_age) >= 1)
                => tokens' >= 0]_vars

\* a caller that waited one second for a token, holding the lock, has
\* refilled, taken its token by force and sent its GET, and the caller
\* queued behind it is woken
C34_Witness ==
    \E c, d \in Callers :
        /\ pc[c] = "awaiting"
        /\ pc[d] = "lock_wait"
        /\ d \in woken
        /\ tokens = 3 - 1
        /\ burst_tokens = 3
        /\ meter.unchanged = 0

----------------------------------------------------------------------------
(* Claims about the path of a call, checked under RetrySpec, CancelSpec,   *)
(* FailureSpec and Spec                                                    *)

\* c's pause after a 429 ends in this step
Retries(c) == pc[c] = "retry_sleep" /\ pc'[c] # "retry_sleep"

\* the burst tokens after the refill of an acquisition made now
BurstRefilled ==
    IF SteadyRefilled = 3 THEN Min(5, burst_tokens + Credit(last_request_age))
    ELSE burst_tokens

\* C32 as stated: after a 429 the call goes back to sending directly: the
\* retry re-issues the GET without acquiring another rate-limit slot.
C32_Original ==
    [][\A c \in Callers :
          Retries(c) => /\ pc'[c] = "awaiting"
                        /\ tokens' = tokens
                        /\ burst_tokens' = burst_tokens]_vars

\* C32 (amended): after a 429 and its pause the retry runs the request from
\* the start: it takes the lock, or queues for it, and makes one more
\* acquisition of the rate limiter, a refill followed by the taking of a
\* steady token, else of a burst token, else by the wait of one second for
\* a token, and only then is the GET sent again.
C32_RetryAcquires ==
    [][\A c \in Callers :
          Retries(c) =>
              \/ pc'[c] = "lock_wait" /\ UNCHANGED rlvars
              \/ /\ last_request_age' = 0
                 /\ IF SteadyRefilled >= 1
                    THEN /\ pc'[c] = "awaiting"
                         /\ tokens' = SteadyRefilled - 1
                         /\ burst_tokens' = BurstRefilled
                    ELSE IF BurstRefilled >= 1
                    THEN /\ pc'[c] = "awaiting"
                         /\ tokens' = SteadyRefilled
                         /\ burst_tokens' = BurstRefilled - 1
                    ELSE /\ pc'[c] = "rl_sleep"
                         /\ sleep'[c] = TicksPerSec
                         /\ tokens' = SteadyRefilled
                         /\ burst_tokens' = BurstRefilled]_vars

\* the retry of a call answered 429 finds both buckets empty and waits for
\* a token before its next GET
C32_Witness ==
    \E c \in Callers :
        /\ pc[c] = "rl_sleep"
        /\ gets[c] >= 1
        /\ tokens = 0
        /\ burst_tokens = 0

\* C35: the step that sends a GET of a call is the step that completes an
\* acquisition of the rate limiter by that call, entered with arguments that
\* pass validation: the step refills, takes exactly one token (a steady one
\* if the refill leaves one, a burst one otherwise, the steady one by force
\* after the wait) and sends one GET of one caller; so the GETs sent never
\* outnumber the acquisitions completed, the retries after 429 included.
C35_GetAfterAcquisition ==
    [][/\ Cardinality({c \in Callers : Sends(c)}) <= 1
       /\ \A c \in Callers :
            Sends(c) =>
                /\ pc[c] \in {"idle", "retry_sleep", "lock_wait", "rl_sleep"}
                /\ req'[c] \in ValidRequests
                /\ validate_params(req'[c].method, req'[c].args)
                /\ pc[c] \in {"retry_sleep", "lock_wait", "rl_sleep"} => req'[c] = req[c]
                /\ last_request_age' = 0
                /\ IF pc[c] = "rl_sleep" \/ SteadyRefilled >= 1
                   THEN tokens' = SteadyRefilled - 1 /\ burst_tokens' = BurstRefilled
                   ELSE tokens' = SteadyRefilled /\ burst_tokens' = BurstRefilled - 1
                /\ gets[c] < MaxGets => gets'[c] = gets[c] + 1]_vars

\* the third GET of a call answered 429 twice is in flight, each of its
\* three GETs having taken a steady token
C35_Witness ==
    \E c \in Callers :
        /\ pc[c] = "awaiting"
        /\ gets[c] = 3
        /\ fresh
        /\ tokens = 0
        /\ burst_tokens = 5

\* c calls _do_request in this step, without a session or with arguments
\* that do not pass validation
Rejected(c) ==
    /\ pc[c] = "idle"
    /\ pc'[c] # "idle"
    /\ session = "none" \/ ~validate_params(req'[c].method, req'[c].args)

\* C38: a call made without a session, or with arguments that fail
\* validation, returns None in the step of the call: it sends no GET, takes
\* no token and not the lock, does not join the lock's queue, and leaves
\* tokens, burst_tokens, last_request_time, the cache and every other call
\* as they were.
C38_RejectedLeavesNoTrace ==
    [][\A c \in Callers :
          Rejected(c) =>
              /\ pc'[c] = "done"
              /\ result'[c] = "None"
              /\ gets'[c] = 0
              /\ hdr'[c] = NoHeader
              /\ UNCHANGED <<tokens, burst_tokens, last_request_age>>
              /\ UNCHANGED <<locked, holder, waiters, woken>>
              /\ UNCHANGED <<response_cache, cache_max_age, session>>
              /\ \A d \in Callers \ {c} : pc'[d] = pc[d] /\ result'[d] = result[d]]_vars

\* on a client that has no session, a call with valid arguments and a call
\* without its required id have both returned None, the buckets full
C38_Witness ==
    \E c, d \in Callers :
        /\ session = "none"
        /\ req[c] \in ValidRequests
        /\ pc[c] = "done"
        /\ result[c] = "None"
        /\ req[d] = R_MissingRequired
        /\ pc[d] = "done"
        /\ result[d] = "None"
        /\ gets[c] = 0 /\ gets[d] = 0
        /\ tokens = 3 /\ burst_tokens = 5
        /\ ~locked

----------------------------------------------------------------------------
(* Further claims about the cache, checked under CacheSpec, ExpirySpec and *)
(* AdminSpec                                                               *)

\* C33 as stated: every 200 that carries an Etag leaves under the request's
\* fingerprint the entry made of that Etag, the parsed body and the current
\* time, whatever the parsed body, an empty one included.
C33_Original ==
    [][\A c \in Callers :
          (Handles(c, 200) /\ answer'.etag # NoHeader /\ answer'.body # Unparsable)
              => /\ ckey[c] \in DOMAIN response_cache'
                 /\ response_cache'[ckey[c]] =
                        [etag |-> answer'.etag, data |-> answer'.body, age |-> 0]]_vars

\* C33 (amended): a 200 that carries an Etag and a non-empty body creates the
\* entry of the request's fingerprint or replaces the one there, with that
\* Etag, that body and the current time, every other entry staying as it
\* is; with an empty body the cache stays as it is and the empty body is
\* returned.
C33_StoredOn200 ==
    [][\A c \in Callers :
          (Handles(c, 200) /\ answer'.etag # NoHeader) =>
              /\ answer'.body \in Payloads =>
                     /\ DOMAIN response_cache' = DOMAIN response_cache \cup {ckey[c]}
                     /\ \A k \in DOMAIN response_cache' :
                           response_cache'[k] =
                               IF k = ckey[c]
                               THEN [etag |-> answer'.etag, data |-> answer'.body, age |-> 0]
                               ELSE response_cache[k]
              /\ answer'.body = EmptyBody =>
                     /\ response_cache' = response_cache
                     /\ result'[c] = EmptyBody]_vars

\* a 200 has replaced the entry of Etag W/1, which a GET still in flight
\* carries, by a new entry of Etag W/2 and body B, after a stride of time
C33_Witness ==
    \E c, d \in Callers :
        /\ answer.caller = c
        /\ answer.status = 200
        /\ ckey[c] \in DOMAIN response_cache
        /\ response_cache[ckey[c]] = [etag |-> "W/2", data |-> "B", age |-> 0]
        /\ pc[d] = "awaiting"
        /\ ckey[d] = ckey[c]
        /\ hdr[d] = "W/1"
        /\ ~fresh

\* C36 as stated: a 304 that answers a GET sent with If-None-Match makes the
\* call return the cached payload, never None, whatever happened to the
\* cache between the sending and the answer.
C36_Original ==
    [][\A c \in Callers :
          (Handles(c, 304) /\ hdr[c] # NoHeader) => result'[c] \in Payloads]_vars

\* C36 (amended): a 304 that answers a GET sent with If-None-Match makes the
\* call return the payload of the entry that its fingerprint has when the
\* answer is handled, if that entry is there and not older than
\* cache_max_age as it is then; the call returns None if clear_cache,
\* invalidate_cache_for_method, set_cache_max_age or the passing of time
\* have removed or expired the entry since the GET was sent.
C36_ServedIfStillCached ==
    [][\A c \in Callers :
          (Handles(c, 304) /\ hdr[c] # NoHeader) =>
              IF Live(ckey[c])
              THEN result'[c] = response_cache[ckey[c]].data /\ result'[c] \in Payloads
              ELSE result'[c] = "None"]_vars

\* a GET sent with If-None-Match has been answered 304 and has returned
\* the payload, after cache_max_age was set to 1800
C36_Witness ==
    \E c \in Callers :
        /\ answer.caller = c
        /\ answer.status = 304
        /\ hdr[c] # NoHeader
        /\ result[c] = "A"
        /\ cache_max_age = 1800

\* C37: a 304 served from an unexpired entry leaves that entry as it was,
\* Etag, payload and timestamp; no step but a 200 for its fingerprint makes
\* an entry younger, so that the age of an entry counts from the 200 that
\* stored it and revalidation does not refresh it.
C37_NotRefreshed ==
    [][/\ \A c \in Callers :
            (Handles(c, 304) /\ Live(ckey[c]))
                => /\ ckey[c] \in DOMAIN response_cache'
                   /\ response_cache'[ckey[c]] = response_cache[ckey[c]]
       /\ \A k \in DOMAIN response_cache \cap DOMAIN response_cache' :
            response_cache'[k].age < response_cache[k].age
                => /\ answer'.status = 200
                   /\ answer'.caller \in Callers
                   /\ ckey[answer'.caller] = k]_vars

\* a 304 has been served from an entry as old as cache_max_age allows, and
\* the entry is as old after it
C37_Witness ==
    \E c \in Callers :
        /\ answer.caller = c
        /\ answer.status = 304
        /\ result[c] = "A"
        /\ ckey[c] \in DOMAIN response_cache
        /\ response_cache[ckey[c]].age = cache_max_age

----------------------------------------------------------------------------
(* A further claim about the session, checked under SessionSpec *)

\* C39 as stated: on a client constructed without a session, every entry of
\* the scope, the entries that follow an exit included, leaves the client
\* with a session that is there and open.
C39_ScopeHasOpenSession ==
    [][(op'.name = "__aenter__" /\ owns_session) => session' = "open"]_vars

-----------------------------------------------------------------------------
\* A claim about concurrent writers of the cache

\* the step writes the entry of key: the entry is new, or its Etag or its
\* data differ, or its timestamp has been renewed
Written(key) ==
    /\ key \in DOMAIN response_cache'
    /\ \/ key \notin DOMAIN response_cache
       \/ response_cache'[key].etag # response_cache[key].etag
       \/ response_cache'[key].data # response_cache[key].data
       \/ response_cache'[key].age < response_cache[key].age

\* C40: under every interleaving of two callers of the same or of different
\* endpoints, an entry is written only by the step that handles a 200
\* carrying an Etag, in answer to a caller in flight whose request has the
\* entry's key; the entry holds that response's Etag and that response's
\* payload, and the step writes no other entry
C40_EntryFromOneResponse ==
    [][\A k \in DOMAIN response_cache' :
            Written(k) =>
                \E c \in Callers :
                    /\ Handles(c, 200)
                    /\ pc[c] = "awaiting"
                    /\ k = ckey[c]
                    /\ k = generate_cache_key(lang, req[c].method, Items(req[c].args))
                    /\ answer'.etag # NoHeader
                    /\ response_cache'[k] =
                           [etag |-> answer'.etag, data |-> answer'.body, age |-> 0]
                    /\ \A j \in DOMAIN response_cache' \ {k} : ~Written(j)]_vars

\* one caller's 200 has just replaced the entry of its endpoint by another
\* payload while the other caller, which asked for the other endpoint and sent
\* that endpoint's Etag, is still in flight; the cache holds both entries
C40_Witness ==
    \E c \in Callers : \E d \in Callers \ {c} :
        /\ answer.caller = c
        /\ answer.status = 200
        /\ ckey[c] \in DOMAIN response_cache
        /\ response_cache[ckey[c]] = [etag |-> "W/1", data |-> "B", age |-> 0]
        /\ hdr[c] = "W/1"
        /\ pc[d] = "awaiting"
        /\ ckey[d] \in DOMAIN response_cache
        /\ ckey[d] # ckey[c]
        /\ response_cache[ckey[d]].data = "A"
        /\ hdr[d] = "W/1"

====
